---- MODULE Spec2Model ----
(***************************************************************************)
(* A model of spotspoof-cli's detection core:                              *)
(*   - the similarity scorer (ascii_spoof.rs: levenshtein_distance,        *)
(*     similarity_ratio), with Rust's f32 arithmetic modelled bit-exactly; *)
(*   - the ASCII path (ascii_spoof.rs: detect_impersonation,               *)
(*     detect_from_most_phished; db.rs: open, fetch_candidates);           *)
(*   - the confusable expander (idn.rs: normalize_domain);                 *)
(*   - the registration-gated scan (idn.rs: puny2url_with_checker).        *)
(*                                                                         *)
(* A string is a sequence of Unicode code points (integers).  Rust's       *)
(* str::len and str::as_bytes work on the UTF-8 encoding, modelled by      *)
(* as_bytes below.                                                         *)
(***************************************************************************)
EXTENDS Integers, Sequences, FiniteSets, TLC

VARIABLES
    pc,                  \* position of the running call
    ret,                 \* what the call returned: NoRet, [ok |-> list] or ErrRet
    \* ---- similarity scorer (ascii_spoof.rs) ----
    sim_a, sim_b,        \* the two arguments of similarity_ratio
    sim_distance,        \* levenshtein_distance(sim_a, sim_b)
    sim_score,           \* similarity_ratio(sim_a, sim_b)
    \* ---- confusable expander (idn.rs) ----
    confusables,         \* MAPPINGS: character -> list of substitute strings
    unicode_domain,      \* the decoded domain
    max_normalized,      \* the cap on the number of variants
    normalized_domains,  \* the variants, in generation order
    \* ---- registration-gated scan (idn.rs) ----
    idn_domain,          \* the argument of puny2url_with_checker
    decoded,             \* outcome of decode_idn_to_unicode: "pending", "whitespace", "errors", "ok"
    max_whois_checks, max_results, max_results_timeout, whois_timeout,
    results,             \* Vec<IdnResult>
    timed_out,
    checks,              \* the loop's enumerate() index
    checker_calls,       \* (history) every call of the checker and what it answered
    \* ---- ASCII path (ascii_spoof.rs, db.rs) ----
    ascii_domain,        \* the argument of detect_impersonation
    most_phished,        \* MOST_PHISHED: the curated brand entries
    most_phished_results,\* what detect_from_most_phished returned
    db_status,           \* the database at db_path: "ok", "open_fails" or "query_fails"
    db_opens,            \* (history) number of db::open calls
    db_queries,          \* (history) the parameters of every fetch_candidates call
    candidates,          \* the rows fetch_candidates returned
    \* ---- brand matcher, one entry at a time (ascii_spoof.rs:77-117) ----
    candidate_order,     \* the order in which the candidates HashSet iterates
    entry_index,         \* number of MOST_PHISHED entries scored so far
    scored,              \* results, before the sort
    \* ---- registration checker (whois.rs) ----
    whois_request,       \* the arguments of check_domain_registration
    send_result,         \* what send() returned
    body_result,         \* what response.json() returned
    \* ---- scan budgets (idn.rs:47-51) ----
    env,                 \* the process environment: variable -> None or Some(value)
    \* ---- command line and HTTP routes (main.rs, http.rs, types.rs) ----
    raw_input,           \* the domain argument as typed, in its parts
    command,             \* the subcommand or route that runs
    no_db,               \* the --no-db flag
    db_ensures,          \* (history) number of db::ensure_db calls
    \* ---- database download (db.rs:48-73) ----
    db_file,             \* the file at db_path: None or Some(contents)
    db_file_before,      \* (history) the file at db_path when download_db was called
    tmp_file,            \* the file at db_path + ".tmp": None or Some(contents)
    response,            \* what the server answered: None or Some([status, body])
    sha_file,            \* the checksum file: None or Some(contents)
    decompressed         \* (history) io::copy ran to the end of the stream

simVars == <<sim_a, sim_b, sim_distance, sim_score>>
expVars == <<confusables, unicode_domain, max_normalized, normalized_domains>>
budgetVars == <<max_whois_checks, max_results, max_results_timeout, whois_timeout>>
scanVars == <<idn_domain, decoded, budgetVars, results, timed_out, checks, checker_calls>>
asciiVars == <<ascii_domain, most_phished, most_phished_results, db_status, db_opens,
               db_queries, candidates>>
brandVars == <<candidate_order, entry_index, scored>>
whoisVars == <<whois_request, send_result, body_result>>
auxVars == <<brandVars, whoisVars, env>>
cliVars == <<raw_input, command, no_db, db_ensures>>
downloadVars == <<db_file, db_file_before, tmp_file, response, sha_file, decompressed>>
opsVars == <<cliVars, downloadVars>>
vars == <<pc, ret, simVars, expVars, scanVars, asciiVars, auxVars, opsVars>>

NoRet == [kind |-> "none"]
ErrRet == [kind |-> "err"]
OkRet(v) == [kind |-> "ok", value |-> v]

Min(x, y) == IF x <= y THEN x ELSE y
Max(x, y) == IF x >= y THEN x ELSE y

\* F(v), with v evaluated first: a loop that carries its accumulator from one
\* iteration to the next is written with it.
Then(v, F(_)) == CHOOSE r \in {F(x) : x \in {v}} : TRUE

\* ------------------------------------------------------------------------
\* Characters and strings
\* ------------------------------------------------------------------------
\* n copies of the code point c
Rep(c, n) == [i \in 1..n |-> c]

\* UTF-8 encoding of one code point (str::as_bytes, one char)
char_bytes(c) ==
    IF c < 128 THEN <<c>>
    ELSE IF c < 2048 THEN <<192 + (c \div 64), 128 + (c % 64)>>
    ELSE IF c < 65536
        THEN <<224 + (c \div 4096), 128 + ((c \div 64) % 64), 128 + (c % 64)>>
    ELSE <<240 + (c \div 262144), 128 + ((c \div 4096) % 64),
           128 + ((c \div 64) % 64), 128 + (c % 64)>>

\* str::as_bytes: the UTF-8 bytes of the characters lo..hi of s, in order (the
\* range is halved so that long strings do not nest deeply)
RECURSIVE bytes_of(_, _, _)
bytes_of(s, lo, hi) ==
    IF lo > hi THEN <<>>
    ELSE IF lo = hi THEN char_bytes(s[lo])
    ELSE LET mid == (lo + hi) \div 2
         IN bytes_of(s, lo, mid) \o bytes_of(s, mid + 1, hi)

as_bytes(s) == bytes_of(s, 1, Len(s))

\* str::len: the length in bytes
str_len(s) == Len(as_bytes(s))

\* ------------------------------------------------------------------------
\* levenshtein_distance (ascii_spoof.rs:144-175)
\* ------------------------------------------------------------------------
\* The inner loop for j in lo..hi, in order: the cells matrix[i+1][lo+1..hi+1] of
\* row i+1 appended to cur, which holds matrix[i+1][0..lo].  prev is row i; a row
\* is 1-indexed here, so matrix[i][j] is prev[j + 1].  (The range is halved so
\* that long rows do not nest deeply; the cells are written left to right.)
RECURSIVE matrix_row(_, _, _, _, _, _)
matrix_row(prev, ca, bb, cur, lo, hi) ==
    IF lo > hi THEN cur
    ELSE IF lo = hi
        THEN LET cost == IF ca = bb[lo + 1] THEN 0 ELSE 1
             IN Append(cur, Min(Min(prev[lo + 2] + 1, cur[lo + 1] + 1),
                                prev[lo + 1] + cost))
    ELSE LET mid == (lo + hi) \div 2
         IN Then(matrix_row(prev, ca, bb, cur, lo, mid),
                 LAMBDA left : matrix_row(prev, ca, bb, left, mid + 1, hi))

\* The outer loop for i in lo..hi, in order: from row lo (prev) to row hi + 1.
RECURSIVE matrix_rows(_, _, _, _, _)
matrix_rows(prev, ab, bb, lo, hi) ==
    IF lo > hi THEN prev
    ELSE IF lo = hi
        THEN matrix_row(prev, ab[lo + 1], bb, <<lo + 1>>, 0, Len(bb) - 1)
    ELSE LET mid == (lo + hi) \div 2
         IN Then(matrix_rows(prev, ab, bb, lo, mid),
                 LAMBDA row : matrix_rows(row, ab, bb, mid + 1, hi))

\* faulty variant, for comparison: the early return for an empty first string returns a_len, not b_len
levenshtein_distance_swapped_empty(s, t) ==
    LET ab == as_bytes(s)
        bb == as_bytes(t)
        a_len == Len(ab)
        b_len == Len(bb)
    IN  IF s = t THEN 0
        ELSE IF a_len = 0 THEN a_len
        ELSE IF b_len = 0 THEN a_len
        ELSE matrix_rows([j \in 1..(b_len + 1) |-> j - 1], ab, bb, 0, a_len - 1)[b_len + 1]

levenshtein_distance(s, t) ==
    LET ab == as_bytes(s)
        bb == as_bytes(t)
        a_len == Len(ab)
        b_len == Len(bb)
    IN  IF s = t THEN 0
        ELSE IF a_len = 0 THEN b_len
        ELSE IF b_len = 0 THEN a_len
        ELSE matrix_rows([j \in 1..(b_len + 1) |-> j - 1], ab, bb, 0, a_len - 1)[b_len + 1]

\* ------------------------------------------------------------------------
\* f32 arithmetic of similarity_ratio (ascii_spoof.rs:140-141)
\* ------------------------------------------------------------------------
\* An f32 has a 24-bit significand; every operation rounds its exact result to
\* the nearest representable value, ties to even.
F32Bits == 24
F32One == 2 ^ F32Bits

\* n / 2^k rounded to the nearest integer, ties to even
RoundHalfEven(n, k) ==
    IF k = 0 THEN n
    ELSE LET q == n \div (2 ^ k)
             r == n % (2 ^ k)
             h == 2 ^ (k - 1)
         IN IF r > h \/ (r = h /\ q % 2 = 1) THEN q + 1 ELSE q

RECURSIVE BitLength(_)
BitLength(n) == IF n = 0 THEN 0 ELSE 1 + BitLength(n \div 2)

\* least e with d * 2^e >= m  (0 < d < m)
RECURSIVE NormShift(_, _)
NormShift(d, m) == IF d >= m THEN 0 ELSE 1 + NormShift(2 * d, m)

\* binary long division: `steps` more quotient bits of r / m appended to q
RECURSIVE LongDiv(_, _, _, _)
LongDiv(r, m, q, steps) ==
    IF steps = 0 THEN [q |-> q, r |-> r]
    ELSE IF 2 * r >= m THEN LongDiv(2 * r - m, m, 2 * q + 1, steps - 1)
         ELSE LongDiv(2 * r, m, 2 * q, steps - 1)

\* distance as f32 / max_len as f32, for 0 < d < m: the f32 quotient
\* mant * 2^(-exp) with 2^23 <= mant < 2^24
f32_div(d, m) ==
    LET e0 == NormShift(d, m)
        ld == LongDiv(d * (2 ^ e0) - m, m, 1, F32Bits - 1)
        up == 2 * ld.r > m \/ (2 * ld.r = m /\ ld.q % 2 = 1)
        mant == IF up THEN ld.q + 1 ELSE ld.q
    IN  IF mant = F32One THEN [mant |-> F32One \div 2, exp |-> F32Bits - 2 + e0]
        ELSE [mant |-> mant, exp |-> F32Bits - 1 + e0]

\* 1.0 - q for an f32 0 < q <= 1: the f32 difference, in units of 2^-24
f32_one_minus(q) ==
    LET s == q.exp - F32Bits IN
    IF s < 0 THEN 0
    ELSE LET hi == q.mant \div (2 ^ s)
             lo == q.mant % (2 ^ s)
             fl == F32One - hi - 1
         IN IF lo = 0 THEN F32One - hi
            ELSE IF 2 * (2 ^ s - lo) > 2 ^ s
                    \/ (2 * (2 ^ s - lo) = 2 ^ s /\ fl % 2 = 1)
                 THEN fl + 1
                 ELSE fl

\* 100.0 * ratio for an f32 ratio = r * 2^-24 (0 <= r <= 2^24): the f32 product, in
\* units of 2^-24
f32_mul100(r) ==
    LET t == 100 * r
        k == Max(0, BitLength(t) - F32Bits)
    IN RoundHalfEven(t, k) * (2 ^ k)

\* faulty variant, for comparison: the product cast to u8 without round(): the fraction is dropped
f32_truncate(p) == p \div F32One

\* f32::round (half away from zero) of p * 2^-24, p >= 0
f32_round(p) == (p + F32One \div 2) \div F32One

\* (100.0 * (1.0 - distance as f32 / max_len as f32)).round().max(0.0) as u8,
\* max_len > 0.  With distance >= max_len the ratio is <= 0 and the product is
\* clamped to 0 by max(0.0).
ratio_to_u8(distance, max_len) ==
    IF distance >= max_len THEN 0
    ELSE IF distance = 0 THEN f32_round(f32_mul100(F32One))
    ELSE f32_round(f32_mul100(f32_one_minus(f32_div(distance, max_len))))

\* similarity_ratio (ascii_spoof.rs:134-142)
similarity_ratio(s, t) ==
    LET max_len == Max(str_len(s), str_len(t)) IN
    IF max_len = 0 THEN 100
    ELSE ratio_to_u8(levenshtein_distance(s, t), max_len)

\* ------------------------------------------------------------------------
\* The similarity scorer called on its own
\* ------------------------------------------------------------------------
NoValue == -1

\* Longest short string tried, in characters
MaxStrLen == 2

\* 'a', 'b' and the two-byte 'e-acute'
SimAlphabet == {97, 98, 233}

StringsOver(alphabet, n) == UNION {[1..k -> alphabet] : k \in 0..n}

\* Long strings: n times 'a' against the same with its first k characters
\* replaced by 'b' (k substitutions apart), or with one character less.
LongLens == {8, 40, 199, 200, 253}
LongEdits == {1, 2, 19}
SubstPair(n, k) == <<Rep(97, n), Rep(98, k) \o Rep(97, n - k)>>
DeletePair(n) == <<Rep(97, n), Rep(97, n - 1)>>
LongPairs ==
    {SubstPair(n, k) : n \in LongLens, k \in {e \in LongEdits : e < 8}}
    \cup {SubstPair(n, k) : n \in LongLens \ {8}, k \in LongEdits}
    \cup {DeletePair(n) : n \in LongLens}

SimPairs ==
    (StringsOver(SimAlphabet, MaxStrLen) \X StringsOver(SimAlphabet, MaxStrLen))
    \cup LongPairs

\* the variables a specification does not use
SimIdle == sim_a = <<>> /\ sim_b = <<>> /\ sim_distance = NoValue /\ sim_score = NoValue
ExpIdle ==
    /\ confusables = <<>> /\ unicode_domain = <<>>
    /\ max_normalized = 0 /\ normalized_domains = <<>>

ScanIdle ==
    /\ idn_domain = <<>> /\ decoded = "pending"
    /\ max_whois_checks = 0 /\ max_results = 0 /\ max_results_timeout = 0
    /\ whois_timeout = 0
    /\ results = <<>> /\ timed_out = FALSE /\ checks = 0 /\ checker_calls = <<>>

AsciiIdle ==
    /\ ascii_domain = <<>> /\ most_phished = <<>> /\ most_phished_results = <<>>
    /\ db_status = "ok" /\ db_opens = 0 /\ db_queries = <<>> /\ candidates = <<>>

BrandIdle == candidate_order = <<>> /\ entry_index = 0 /\ scored = <<>>
WhoisIdle == whois_request = <<>> /\ send_result = <<>> /\ body_result = <<>>
CliIdle == raw_input = <<>> /\ command = "" /\ no_db = FALSE /\ db_ensures = 0
DownloadIdle ==
    /\ db_file = <<>> /\ db_file_before = <<>> /\ tmp_file = <<>>
    /\ response = <<>> /\ sha_file = <<>> /\ decompressed = FALSE
OpsIdle == CliIdle /\ DownloadIdle
AuxIdle == BrandIdle /\ WhoisIdle /\ env = <<>> /\ OpsIdle

SimInit ==
    /\ pc = "sim_start"
    /\ ret = NoRet
    /\ AuxIdle
    /\ ExpIdle
    /\ ScanIdle
    /\ AsciiIdle
    /\ \E p \in SimPairs : sim_a = p[1] /\ sim_b = p[2]
    /\ sim_distance = NoValue
    /\ sim_score = NoValue

\* a call of levenshtein_distance(sim_a, sim_b)
LevenshteinDistance ==
    /\ pc = "sim_start"
    /\ sim_distance' = levenshtein_distance(sim_a, sim_b)
    /\ pc' = "lev_done"
    /\ UNCHANGED <<opsVars, auxVars, ret, sim_a, sim_b, sim_score, expVars, scanVars, asciiVars>>

\* a call of similarity_ratio(sim_a, sim_b)
SimilarityRatio ==
    /\ pc = "lev_done"
    /\ sim_score' = similarity_ratio(sim_a, sim_b)
    /\ pc' = "sim_done"
    /\ UNCHANGED <<opsVars, auxVars, ret, sim_a, sim_b, sim_distance, expVars, scanVars, asciiVars>>

SimNext == LevenshteinDistance \/ SimilarityRatio

SpecSimilarity == SimInit /\ [][SimNext]_vars

\* ---- claims about the similarity scorer ----

\* The classic edit distance of two sequences, by its defining recursion on the
\* first elements: the least number of unit-cost insertions, deletions and
\* substitutions that turn x into y.
RECURSIVE EditDistance(_, _)
EditDistance(x, y) ==
    IF x = <<>> THEN Len(y)
    ELSE IF y = <<>> THEN Len(x)
    ELSE IF Head(x) = Head(y) THEN EditDistance(Tail(x), Tail(y))
    ELSE 1 + Min(Min(EditDistance(Tail(x), y), EditDistance(x, Tail(y))),
                 EditDistance(Tail(x), Tail(y)))

SimMaxLen == Max(str_len(sim_a), str_len(sim_b))
IsShortPair == Len(sim_a) <= MaxStrLen /\ Len(sim_b) <= MaxStrLen

\* 100 * (m - d) / m rounded to the nearest integer, halves away from zero
\* (what f32::round does), in exact arithmetic
RoundedPercent(d, m) == (200 * (m - d) + m) \div (2 * m)

\* C5: similarity(a, b) is 100 when both strings are empty and otherwise
\* round(100 * (1 - d / max(len(a), len(b)))), d the edit distance; it lies in
\* 0..100, similarity(s, s) = 100 and similarity(s, "") = 0 for non-empty s.
C5_SimilarityIsRoundedPercent ==
    pc = "sim_done" =>
        /\ sim_score \in 0..100
        /\ (SimMaxLen = 0 => sim_score = 100)
        /\ (SimMaxLen > 0 => sim_score = RoundedPercent(sim_distance, SimMaxLen))
        /\ (sim_a = sim_b => sim_score = 100)
        /\ (sim_b = <<>> /\ sim_a # <<>> => sim_score = 0)

\* C6 (as claimed): for strings of at most 253 bytes, similarity(a, b) = 100 if
\* and only if a and b are identical.
C6_HundredIffIdentical ==
    (pc = "sim_done" /\ SimMaxLen <= 253) =>
        (sim_score = 100 <=> sim_a = sim_b)

\* C6 (amended): for strings of at most 253 bytes, similarity(a, b) = 100 if and
\* only if a and b are identical, or the longer one has at least 200 bytes and
\* their edit distance is 1.
C6_HundredIffIdenticalOrLong ==
    (pc = "sim_done" /\ SimMaxLen <= 253) =>
        (sim_score = 100 <=>
            (sim_a = sim_b \/ (SimMaxLen >= 200 /\ sim_distance = 1)))

\* C6 witness: two different strings were scored 100.
C6_Witness == pc = "sim_done" /\ sim_a # sim_b /\ sim_score = 100

\* C7: levenshtein_distance(a, b) is the classic edit distance of the two byte
\* strings; the distance to the empty string is the other string's length; the
\* distance is symmetric.  (On the long pairs the edit distance is known: k
\* substituted characters, or one deleted character.)
C7_LevenshteinIsEditDistance ==
    pc \in {"lev_done", "sim_done"} =>
        /\ (IsShortPair =>
                sim_distance = EditDistance(as_bytes(sim_a), as_bytes(sim_b)))
        /\ (sim_a = <<>> => sim_distance = str_len(sim_b))
        /\ (sim_b = <<>> => sim_distance = str_len(sim_a))
        /\ sim_distance = levenshtein_distance(sim_b, sim_a)
        /\ \A n \in LongLens :
              /\ <<sim_a, sim_b>> = DeletePair(n) => sim_distance = 1
              /\ \A k \in LongEdits :
                    (k < n /\ <<sim_a, sim_b>> = SubstPair(n, k)) => sim_distance = k

\* C7 witness: the matrix was filled for two different non-empty strings, one of
\* them with a multi-byte character, and the distance is at least 2.
C7_Witness ==
    /\ pc = "lev_done"
    /\ sim_a # <<>> /\ sim_b # <<>> /\ IsShortPair
    /\ str_len(sim_a) > Len(sim_a)
    /\ sim_distance >= 2

\* ------------------------------------------------------------------------
\* normalize_domain (idn.rs:105-138)
\* ------------------------------------------------------------------------
\* faulty variant, for comparison: a character absent from the map has no
\* substitute
replacements_of_mapped_only(map, ch) ==
    IF ch \in DOMAIN map THEN map[ch] ELSE <<>>

\* confusables.get(&key).cloned().unwrap_or_else(|| vec![key])
replacements_of(map, ch) ==
    IF ch \in DOMAIN map THEN map[ch] ELSE << <<ch>> >>

\* for replacement in replacements.iter() (from the j-th on), with its break
RECURSIVE push_replacements(_, _, _, _, _)
push_replacements(next, prefix, replacements, j, cap) ==
    IF j > Len(replacements) \/ Len(next) >= cap THEN next
    ELSE push_replacements(Append(next, prefix \o replacements[j]),
                           prefix, replacements, j + 1, cap)

\* for prefix in combinations.iter() (from the i-th on), with its break
RECURSIVE push_prefixes(_, _, _, _, _)
push_prefixes(next, combinations, i, replacements, cap) ==
    IF i > Len(combinations) THEN next
    ELSE LET pushed == push_replacements(next, combinations[i], replacements, 1, cap)
         IN IF Len(pushed) >= cap THEN pushed
            ELSE push_prefixes(pushed, combinations, i + 1, replacements, cap)

\* for ch in domain.chars() (from the k-th on), with its break
RECURSIVE expand_chars(_, _, _, _, _)
expand_chars(combinations, domain, k, map, cap) ==
    IF k > Len(domain) THEN combinations
    ELSE LET next == push_prefixes(<<>>, combinations, 1,
                                   replacements_of(map, domain[k]), cap)
         IN IF Len(next) >= cap THEN next
            ELSE expand_chars(next, domain, k + 1, map, cap)

normalize_domain(domain, map, cap) == expand_chars(<< <<>> >>, domain, 1, map, cap)

\* ------------------------------------------------------------------------
\* The confusable expander called on its own
\* ------------------------------------------------------------------------
\* Longest domain expanded, in characters
MaxDomainLen == 3
\* Longest substitute list of a character
MaxSubs == 2
\* Largest cap tried
MaxCap == 5

\* 'a' and the Cyrillic small a (U+0430)
ExpAlphabet == {97, 1072}
\* the substitutes "a" and "@"
ExpSubstitutes == {<<97>>, <<64>>}

SeqsOver(S, n) == UNION {[1..k -> S] : k \in 0..n}

ConfusableMaps ==
    UNION {[keys -> SeqsOver(ExpSubstitutes, MaxSubs)] : keys \in SUBSET ExpAlphabet}

ExpInit ==
    /\ pc = "normalize"
    /\ ret = NoRet
    /\ AuxIdle
    /\ SimIdle
    /\ ScanIdle
    /\ AsciiIdle
    /\ confusables \in ConfusableMaps
    /\ unicode_domain \in StringsOver(ExpAlphabet, MaxDomainLen)
    /\ max_normalized \in 0..MaxCap
    /\ normalized_domains = <<>>

\* a call of normalize_domain(unicode_domain, confusables, max_normalized)
NormalizeDomain ==
    /\ pc = "normalize"
    /\ normalized_domains' = normalize_domain(unicode_domain, confusables, max_normalized)
    /\ pc' = "normalized"
    /\ UNCHANGED <<opsVars, auxVars, ret, simVars, scanVars, asciiVars, confusables, unicode_domain,
                   max_normalized>>

ExpNext == NormalizeDomain

SpecNormalize == ExpInit /\ [][ExpNext]_vars

\* ------------------------------------------------------------------------
\* puny2url_with_checker (idn.rs:38-92) and its helpers
\* ------------------------------------------------------------------------
DEFAULT_MAX_NORMALIZED == 2000
DEFAULT_MAX_WHOIS_CHECKS == 200
DEFAULT_MAX_RESULTS == 50
DEFAULT_MAX_RESULTS_TIMEOUT == 5
DEFAULT_WHOIS_TIMEOUT_MS == 2500

\* Option<T>: None is <<>>, Some(v) is <<v>>
None == <<>>
Some(v) == <<v>>

\* char::is_whitespace (the Unicode White_Space property)
is_whitespace(c) ==
    c \in (9..13) \cup {32, 133, 160, 5760} \cup (8192..8202)
          \cup {8232, 8233, 8239, 8287, 12288}

has_whitespace(s) == \E i \in 1..Len(s) : is_whitespace(s[i])

\* the value of a string of ASCII digits
RECURSIVE digits_value(_)
digits_value(d) ==
    IF d = <<>> THEN 0 ELSE 10 * digits_value(SubSeq(d, 1, Len(d) - 1)) + (d[Len(d)] - 48)

\* str::parse::<usize> / parse::<u64>: an optional '+' and at least one digit
\* (values beyond the type's range, which fail too, are not among the inputs)
parse_unsigned(v) ==
    LET digits == IF v # <<>> /\ v[1] = 43 THEN Tail(v) ELSE v IN
    IF digits = <<>> \/ \E i \in 1..Len(digits) : digits[i] \notin 48..57
    THEN None
    ELSE Some(digits_value(digits))

\* faulty variant, for comparison: a value that does not parse counts as 0
env_usize_zero_on_invalid(var, default) ==
    IF var = None THEN default
    ELSE IF parse_unsigned(var[1]) = None THEN 0
    ELSE parse_unsigned(var[1])[1]

\* env_usize / env_u64 (idn.rs:160-172); var is std::env::var(key).ok()
env_usize(var, default) ==
    IF var = None THEN default
    ELSE IF parse_unsigned(var[1]) = None THEN default
    ELSE parse_unsigned(var[1])[1]

\* map_unicode_to_ascii (idn.rs:140-158)
RECURSIVE map_chars(_, _, _, _)
map_chars(unicode_chars, ascii_chars, i, len) ==
    IF i > len THEN <<>>
    ELSE (IF unicode_chars[i] > 127
          THEN <<[unicode |-> <<unicode_chars[i]>>, ascii |-> <<ascii_chars[i]>>]>>
          ELSE <<>>)
         \o map_chars(unicode_chars, ascii_chars, i + 1, len)

\* faulty variant, for comparison: a mapping for every position
map_every_position(unicode, normalized) ==
    [i \in 1..Min(Len(unicode), Len(normalized)) |->
        [unicode |-> <<unicode[i]>>, ascii |-> <<normalized[i]>>]]

map_unicode_to_ascii(unicode, normalized) ==
    map_chars(unicode, normalized, 1, Min(Len(unicode), Len(normalized)))

IdnResult(domain) ==
    [domain |-> domain,
     mappings |-> map_unicode_to_ascii(unicode_domain, domain),
     is_registered |-> TRUE]

\* ---- inputs of a scan ----
\* Largest number an environment override holds
MaxEnvValue == 2

\* an environment variable: unset, "x", or a number 0..MaxEnvValue
EnvValues == {None, Some(<<120>>)} \cup {Some(<<48 + n>>) : n \in 0..MaxEnvValue}
\* WHOIS_TIMEOUT_MS: unset, "x" or "1"
EnvTimeouts == {None, Some(<<120>>), Some(<<49>>)}

\* the raw argument: Cyrillic "a", and the same around a space
ScanInputs == {<<1072>>, <<1072, 32, 1072>>}
\* what domain_to_unicode may answer: strings of Cyrillic "a" and "."
ScanDomains == StringsOver({1072, 46}, 2)
\* MAPPINGS: Cyrillic "a" -> "a", "@"; or -> "a", "aa"
ScanMaps == {
    (1072 :> << <<97>>, <<64>> >>),
    (1072 :> << <<97>>, <<97, 97>> >>) }

\* what the checker may answer: Ok((registered, timed_out)) or Err
CheckerAnswers ==
    {[err |-> FALSE, registered |-> r, timed_out |-> t] : r, t \in BOOLEAN}
    \cup {[err |-> TRUE, registered |-> FALSE, timed_out |-> FALSE]}

Init ==
    /\ pc = "scan_start"
    /\ ret = NoRet
    /\ AuxIdle
    /\ SimIdle
    /\ AsciiIdle
    /\ confusables \in ScanMaps
    /\ unicode_domain = <<>> /\ max_normalized = 0 /\ normalized_domains = <<>>
    /\ idn_domain \in ScanInputs
    /\ decoded = "pending"
    /\ max_whois_checks = 0 /\ max_results = 0 /\ max_results_timeout = 0
    /\ whois_timeout = 0
    /\ results = <<>> /\ timed_out = FALSE /\ checks = 0 /\ checker_calls = <<>>

\* faulty variant, for comparison: a decode failure is returned as an error
on_decode_failure_err == ErrRet

\* idn.rs:43-45: let Some(..) = unicode_domain else { return Ok(Vec::new()) }
on_decode_failure == OkRet(<<>>)

\* idn.rs:42-45 with decode_idn_to_unicode (94-103): the input holds whitespace,
\* or domain_to_unicode reports errors; the call returns Ok(Vec::new())
DecodeFails ==
    /\ pc = "scan_start"
    /\ \E lib_errors \in BOOLEAN :
          /\ has_whitespace(idn_domain) \/ lib_errors
          /\ decoded' = IF has_whitespace(idn_domain) THEN "whitespace" ELSE "errors"
    /\ ret' = on_decode_failure
    /\ pc' = "returned"
    /\ UNCHANGED <<opsVars, auxVars, simVars, expVars, asciiVars, idn_domain, budgetVars, results,
                   timed_out, checks, checker_calls>>

\* idn.rs:42-55: the input decodes; the budgets are read from the environment and
\* the variants generated
StartScan ==
    /\ pc = "scan_start"
    /\ ~has_whitespace(idn_domain)
    /\ decoded' = "ok"
    /\ \E unicode \in ScanDomains,
          e_normalized, e_checks, e_results, e_results_timeout \in EnvValues,
          e_timeout \in EnvTimeouts :
          /\ unicode_domain' = unicode
          /\ max_normalized' = env_usize(e_normalized, DEFAULT_MAX_NORMALIZED)
          /\ max_whois_checks' = env_usize(e_checks, DEFAULT_MAX_WHOIS_CHECKS)
          /\ max_results' = env_usize(e_results, DEFAULT_MAX_RESULTS)
          /\ max_results_timeout' = env_usize(e_results_timeout, DEFAULT_MAX_RESULTS_TIMEOUT)
          /\ whois_timeout' = env_usize(e_timeout, DEFAULT_WHOIS_TIMEOUT_MS)
          /\ normalized_domains' = normalize_domain(unicode, confusables, max_normalized')
    /\ results' = <<>>
    /\ timed_out' = FALSE
    /\ checks' = 0
    /\ pc' = "loop"
    /\ UNCHANGED <<opsVars, auxVars, ret, simVars, asciiVars, confusables, idn_domain, checker_calls>>

\* faulty variant, for comparison: the check budget is not tested
loop_breaks_without_check_budget(n_checks, n_results, t_out) ==
    \/ ~t_out /\ n_results >= max_results
    \/ t_out /\ n_results >= max_results_timeout

\* idn.rs:58-66: the three breaks at the top of the loop body
loop_breaks(n_checks, n_results, t_out) ==
    \/ n_checks >= max_whois_checks
    \/ ~t_out /\ n_results >= max_results
    \/ t_out /\ n_results >= max_results_timeout

\* faulty variant, for comparison: every checked variant is pushed
push_unconditionally(res, registered, domain) == Append(res, IdnResult(domain))

\* idn.rs:74-80
push_if_registered(res, registered, domain) ==
    IF registered THEN Append(res, IdnResult(domain)) ELSE res

\* faulty variant, for comparison: the loop goes on after a timeout
pc_after_check_without_break(t_out) == "loop"

\* idn.rs:82-84: break once timed out
pc_after_check(t_out) == IF t_out THEN "after_loop" ELSE "loop"

\* faulty variant, for comparison: the results are returned untruncated
truncate_never(res, t_out) == res

\* idn.rs:87-89
truncate_after_timeout(res, t_out) ==
    IF t_out /\ Len(res) > max_results_timeout
    THEN SubSeq(res, 1, max_results_timeout)
    ELSE res

\* faulty variant, for comparison: the hits collected so far are returned
on_checker_err_returns_hits(res) == OkRet(res)

\* idn.rs:68: the ? after checker(..) returns the checker's error
on_checker_err(res) == ErrRet

\* idn.rs:57-66: the loop ends, the variants being exhausted or a break taken
LoopExit ==
    /\ pc = "loop"
    /\ checks >= Len(normalized_domains) \/ loop_breaks(checks, Len(results), timed_out)
    /\ pc' = "after_loop"
    /\ UNCHANGED <<opsVars, auxVars, ret, simVars, expVars, scanVars, asciiVars>>

\* idn.rs:57-85: one pass of the loop body; the checker is called on the next
\* variant
CheckVariant ==
    /\ pc = "loop"
    /\ checks < Len(normalized_domains)
    /\ ~loop_breaks(checks, Len(results), timed_out)
    /\ \E answer \in CheckerAnswers :
          LET domain == normalized_domains[checks + 1] IN
          /\ checker_calls' = Append(checker_calls,
                [index |-> checks, domain |-> domain, timeout_ms |-> whois_timeout,
                 err |-> answer.err, registered |-> answer.registered,
                 timed_out |-> answer.timed_out])
          /\ IF answer.err
             THEN /\ ret' = on_checker_err(results)
                  /\ pc' = "returned"
                  /\ UNCHANGED <<opsVars, results, timed_out, checks>>
             ELSE /\ timed_out' = (timed_out \/ answer.timed_out)
                  /\ results' = push_if_registered(results, answer.registered, domain)
                  /\ checks' = checks + 1
                  /\ pc' = pc_after_check(timed_out')
                  /\ UNCHANGED ret
    /\ UNCHANGED <<opsVars, auxVars, simVars, expVars, asciiVars, idn_domain, decoded, budgetVars>>

\* idn.rs:87-91
ReturnResults ==
    /\ pc = "after_loop"
    /\ results' = truncate_after_timeout(results, timed_out)
    /\ ret' = OkRet(results')
    /\ pc' = "returned"
    /\ UNCHANGED <<opsVars, auxVars, simVars, expVars, asciiVars, idn_domain, decoded, budgetVars,
                   timed_out, checks, checker_calls>>

Next == DecodeFails \/ StartScan \/ LoopExit \/ CheckVariant \/ ReturnResults

Spec == Init /\ [][Next]_vars

\* ---- claims about the confusable expander ----

\* C2: normalize_domain never returns more than maxVariants strings, for every
\* domain (the empty one included), every map and every cap (0 included).
C2_AtMostMaxVariants ==
    pc = "normalized" => Len(normalized_domains) <= max_normalized

\* the substitute list of a character: its entry in the map, or the character
\* itself when the map has none
Substitutes(ch) ==
    IF ch \in DOMAIN confusables THEN confusables[ch] ELSE << <<ch>> >>

\* the strings made of one substitute for each character of the first k
\* characters of the domain
RECURSIVE Substitutions(_)
Substitutions(k) ==
    IF k = 0
    THEN {<<>>}
    ELSE {p \o Substitutes(unicode_domain[k])[j] :
              p \in Substitutions(k - 1),
              j \in 1..Len(Substitutes(unicode_domain[k]))}

\* C18: for a cap of at least 1, every string normalize_domain returns is
\* fully substituted: one substitute for each character of the whole domain,
\* concatenated in order.
C18_VariantsFullySubstituted ==
    (pc = "normalized" /\ max_normalized >= 1) =>
        \A i \in 1..Len(normalized_domains) :
            normalized_domains[i] \in Substitutions(Len(unicode_domain))

\* the number of strings after the first k characters, were there no cap
RECURSIVE FrontierSize(_)
FrontierSize(k) ==
    IF k = 0 THEN 1 ELSE FrontierSize(k - 1) * Len(Substitutes(unicode_domain[k]))

CapNeverReached ==
    \A k \in 1..Len(unicode_domain) : FrontierSize(k) < max_normalized

\* the cross product of the substitute lists of the characters from the k-th
\* on, the substitutes of the k-th character being the most significant
RECURSIVE LexProduct(_)
LexProduct(k) ==
    IF k > Len(unicode_domain)
    THEN << <<>> >>
    ELSE LET subs == Substitutes(unicode_domain[k])
             rest == LexProduct(k + 1)
         IN  [n \in 1..(Len(subs) * Len(rest)) |->
                 subs[((n - 1) \div Len(rest)) + 1] \o rest[((n - 1) % Len(rest)) + 1]]

\* C19: when the cap is never reached, normalize_domain returns the whole
\* cross product of the substitute lists (a character absent from the map
\* standing for itself), in lexicographic order of the substitute indices,
\* the first character being the most significant.
C19_FullCrossProductInOrder ==
    (pc = "normalized" /\ CapNeverReached) => normalized_domains = LexProduct(1)

\* C27: if the product of the substitute-list sizes over all characters of the
\* domain is at most the cap, normalize_domain returns every combination,
\* each covering all characters of the domain.
C27_FullSpaceWhenItFits ==
    (pc = "normalized" /\ FrontierSize(Len(unicode_domain)) <= max_normalized) =>
        {normalized_domains[i] : i \in 1..Len(normalized_domains)}
            = Substitutions(Len(unicode_domain))

\* C19 witness: "a", Cyrillic "a", "a" with only "a" in the map, and a cap of 5
C19_Witness ==
    /\ pc = "normalized"
    /\ CapNeverReached
    /\ unicode_domain = <<97, 1072, 97>>
    /\ 1072 \notin DOMAIN confusables
    /\ normalized_domains = << <<97, 1072, 97>>, <<97, 1072, 64>>,
                               <<64, 1072, 97>>, <<64, 1072, 64>> >>

\* ---- claims about the scan ----

\* the scan ran to its end and returned a list
ScanReturned == pc = "returned" /\ decoded = "ok" /\ ret.kind = "ok"

\* some call of the checker answered timed_out = true
SomeTimeout == \E i \in 1..Len(checker_calls) : checker_calls[i].timed_out

Domains(list) == [i \in 1..Len(list) |-> list[i].domain]

\* the variants the checker reported registered, in call order
IsHit(call) == ~call.err /\ call.registered
Hits == Domains(SelectSeq(checker_calls, IsHit))

\* C1: the scan returns at most maxResultsNormal results when no check timed
\* out, and at most maxResultsAfterTimeout when one did: the hits collected up to
\* the timeout are cut down to the first maxResultsAfterTimeout.
C1_ResultCaps ==
    ScanReturned =>
        /\ (~SomeTimeout => Len(ret.value) <= max_results)
        /\ (SomeTimeout =>
                /\ Len(ret.value) <= max_results_timeout
                /\ Domains(ret.value)
                     = SubSeq(Hits, 1, Min(Len(Hits), max_results_timeout)))

\* C1 witness: a check timed out after more hits than maxResultsAfterTimeout, and
\* the list returned was cut to that cap.
C1_Witness ==
    /\ ScanReturned /\ SomeTimeout
    /\ max_results_timeout > 0
    /\ Len(Hits) > max_results_timeout
    /\ Len(ret.value) = max_results_timeout

\* C8: every result returned is a variant the checker reported registered in
\* this scan and carries is_registered = true; the results are in scan order:
\* the calls follow the variant list and the results follow the registered calls.
C8_OnlyRegisteredInScanOrder ==
    /\ \A i \in 1..Len(checker_calls) :
          checker_calls[i].domain = normalized_domains[i]
    /\ \A i \in 1..Len(results) : results[i].is_registered
    /\ (pc \in {"loop", "after_loop"} => Domains(results) = Hits)
    /\ (ScanReturned =>
          /\ \A i \in 1..Len(ret.value) : ret.value[i].is_registered
          /\ Len(ret.value) <= Len(Hits)
          /\ Domains(ret.value) = SubSeq(Hits, 1, Len(ret.value))
          /\ (~SomeTimeout => Domains(ret.value) = Hits))

\* C8 witness: two results were returned and a variant checked between them was
\* not registered.
C8_Witness ==
    /\ ScanReturned
    /\ Len(ret.value) >= 2
    /\ \E i, j, k \in 1..Len(checker_calls) :
          /\ i < j /\ j < k
          /\ IsHit(checker_calls[i]) /\ ~IsHit(checker_calls[j]) /\ IsHit(checker_calls[k])

\* C9: once a check reports timed_out = true the flag stays set for the rest of
\* the call and the checker is not called again: the loop is left right after the
\* variant that timed out.
C9_TimeoutEndsScan ==
    [][ /\ (timed_out => timed_out' /\ checker_calls' = checker_calls)
        /\ (~timed_out /\ timed_out' => pc' = "after_loop")
        /\ (SomeTimeout => timed_out) ]_vars

\* C9 witness: the scan returned after a timeout with variants, check budget and
\* result budget left.
C9_Witness ==
    /\ ScanReturned /\ timed_out
    /\ Len(checker_calls) < Len(normalized_domains)
    /\ Len(checker_calls) < max_whois_checks
    /\ Len(ret.value) < max_results_timeout

\* C10: the checker is called at most min(maxRegistrationChecks, number of
\* variants) times, on a prefix of the variant list in generation order, once per
\* variant; with a budget exhausted the loop is left without another call.
C10_ChecksBounded ==
    /\ [](/\ Len(checker_calls) <= Min(max_whois_checks, Len(normalized_domains))
          /\ \A i \in 1..Len(checker_calls) :
                /\ checker_calls[i].index = i - 1
                /\ checker_calls[i].domain = normalized_domains[i])
    /\ [][(pc = "loop" /\ (\/ checks >= max_whois_checks
                            \/ checks >= Len(normalized_domains)
                            \/ Len(results) >= max_results))
            => (pc' = "after_loop" /\ checker_calls' = checker_calls)]_vars

\* C10 witness: the scan stopped on the check budget, with variants and result
\* budget left and no timeout.
C10_Witness ==
    /\ ScanReturned /\ ~timed_out
    /\ Len(checker_calls) = max_whois_checks
    /\ max_whois_checks >= 2
    /\ Len(checker_calls) < Len(normalized_domains)
    /\ Len(ret.value) < max_results

\* C11: when the checker returns an error for a variant, the scan returns that
\* error: the call is over at once, its result is the error and no list (the
\* hits collected so far are not returned), and no later variant is checked.
C11_CheckerErrorIsFatal ==
    \A i \in 1..Len(checker_calls) :
        checker_calls[i].err =>
            /\ i = Len(checker_calls)
            /\ pc = "returned"
            /\ ret = ErrRet

\* C11 witness: the checker fails after a hit was collected and with variants
\* still unchecked.
C11_Witness ==
    /\ pc = "returned"
    /\ ret = ErrRet
    /\ Len(checker_calls) >= 2
    /\ checker_calls[Len(checker_calls)].err
    /\ results # <<>>
    /\ Len(checker_calls) < Min(max_whois_checks, Len(normalized_domains))

DecodeFailed == decoded \in {"whitespace", "errors"}

\* C14: when the input holds a whitespace character or decoding it reports an
\* error, the lookup returns successfully with an empty list, and neither the
\* expander nor the checker is invoked.
C14_DecodeFailureGivesEmptyOk ==
    /\ [](DecodeFailed =>
              /\ pc = "returned"
              /\ ret = OkRet(<<>>)
              /\ normalized_domains = <<>>
              /\ checker_calls = <<>>)
    /\ []((has_whitespace(idn_domain) /\ pc # "scan_start") => decoded = "whitespace")
    /\ [][DecodeFailed' => UNCHANGED <<opsVars, expVars, budgetVars, checker_calls>>]_vars

\* C14 witness: an input without whitespace that the decoder rejects
C14_Witness ==
    /\ decoded = "errors"
    /\ ~has_whitespace(idn_domain)
    /\ pc = "returned"
    /\ ret = OkRet(<<>>)

NonAsciiOriginal(mapping) == mapping.unicode[1] > 127

\* one mapping per position, up to the shorter length, whose original
\* character is not ASCII, in increasing position
ExpectedMappings(u, v) ==
    SelectSeq([i \in 1..Min(Len(u), Len(v)) |-> [unicode |-> <<u[i]>>, ascii |-> <<v[i]>>]],
              NonAsciiOriginal)

\* C17: the mappings of a result pair, for each position below the shorter of
\* the two lengths whose original character has a code point above 127, that
\* character with the variant's character at the same position, in increasing
\* position, and hold nothing for a position whose original is ASCII.
C17_MappingsOfNonAsciiPositions ==
    /\ \A i \in 1..Len(results) :
          results[i].mappings = ExpectedMappings(unicode_domain, results[i].domain)
    /\ ScanReturned =>
          \A i \in 1..Len(ret.value) :
              /\ ret.value[i].mappings =
                     ExpectedMappings(unicode_domain, ret.value[i].domain)
              /\ \A k \in 1..Len(ret.value[i].mappings) :
                     ret.value[i].mappings[k].unicode[1] > 127

\* C17 witness: the domain starts with an ASCII dot, and the variant is longer
\* than the domain; only the second position is mapped.
C17_Witness ==
    /\ ScanReturned
    /\ unicode_domain = <<46, 1072>>
    /\ \E i \in 1..Len(ret.value) :
          /\ Len(ret.value[i].domain) = 3
          /\ ret.value[i].mappings = <<[unicode |-> <<1072>>, ascii |-> <<97>>]>>

\* ------------------------------------------------------------------------
\* ASCII path: ascii_spoof.rs detect_impersonation, detect_from_most_phished
\* ------------------------------------------------------------------------
LENGTH_BAND == 2
MAX_CANDIDATES == 5000
MIN_SIMILARITY == 80
MAX_RESULTS == 3

\* char::to_lowercase on the code points the inputs below use: ASCII and
\* Latin-1 capitals move by 32, every other code point is kept.
to_lowercase(c) ==
    IF (c >= 65 /\ c <= 90) \/ (c >= 192 /\ c <= 214) \/ (c >= 216 /\ c <= 222)
    THEN c + 32
    ELSE c

normalize(value) == [i \in 1..Len(value) |-> to_lowercase(value[i])]

is_ascii_alphanumeric(c) ==
    (c >= 48 /\ c <= 57) \/ (c >= 65 /\ c <= 90) \/ (c >= 97 /\ c <= 122)

strip_non_alnum(value) == SelectSeq(value, is_ascii_alphanumeric)

\* faulty variant, for comparison: the string is cut at its first dot
get_base_domain_first_dot(domain) ==
    LET dots == {i \in 1..Len(domain) : domain[i] = 46}
    IN  IF dots = {}
        THEN domain
        ELSE LET idx == CHOOSE i \in dots : \A j \in dots : i <= j
             IN  IF idx > 1 THEN SubSeq(domain, 1, idx - 1) ELSE domain

\* rfind('.') is a byte index; it is > 0 exactly when a character precedes
\* the last dot.
get_base_domain(domain) ==
    LET dots == {i \in 1..Len(domain) : domain[i] = 46}
    IN  IF dots = {}
        THEN domain
        ELSE LET idx == CHOOSE i \in dots : \A j \in dots : j <= i
             IN  IF idx > 1 THEN SubSeq(domain, 1, idx - 1) ELSE domain

AsciiResult(domain, similarity) == [domain |-> domain, similarity |-> similarity]

\* results.truncate(n)
truncate(list, n) == SubSeq(list, 1, Min(Len(list), n))

\* faulty variant, for comparison: an entry goes in front of the entries of
\* equal similarity
insert_before_equals(sorted, r) ==
    LET ahead == Cardinality({i \in 1..Len(sorted) : sorted[i].similarity > r.similarity})
    IN  SubSeq(sorted, 1, ahead) \o <<r>> \o SubSeq(sorted, ahead + 1, Len(sorted))

\* One step of the stable sort by |a, b| b.similarity.cmp(&a.similarity):
\* an entry goes behind every entry whose similarity is at least its own.
insert_by_similarity(sorted, r) ==
    LET ahead == Cardinality({i \in 1..Len(sorted) : sorted[i].similarity >= r.similarity})
    IN  SubSeq(sorted, 1, ahead) \o <<r>> \o SubSeq(sorted, ahead + 1, Len(sorted))

RECURSIVE sort_prefix(_, _)
sort_prefix(list, n) ==
    IF n = 0 THEN <<>> ELSE insert_by_similarity(sort_prefix(list, n - 1), list[n])

\* faulty variant, for comparison: the list is left in scoring order
sort_by_similarity_unsorted(list) == list

sort_by_similarity(list) == sort_prefix(list, Len(list))

at_least_min_similarity(similarity) == similarity >= MIN_SIMILARITY

\* The four spellings of the input that are compared with a brand entry.
input_candidates(domain) ==
    LET input      == normalize(domain)
        input_base == get_base_domain(input)
    IN  {input, input_base, strip_non_alnum(input), strip_non_alnum(input_base)}

entry_targets(entry) ==
    {entry.domain, entry.base} \cup {entry.aliases[i] : i \in 1..Len(entry.aliases)}

\* best starts at 0 and is raised by every higher score.
best_score(cands, targets) ==
    LET scores == {similarity_ratio(c, t) : c \in cands, t \in targets} \cup {0}
    IN  CHOOSE s \in scores : \A other \in scores : other <= s

RECURSIVE score_entries(_, _, _)
score_entries(entries, cands, n) ==
    IF n = 0
    THEN <<>>
    ELSE LET before == score_entries(entries, cands, n - 1)
             best   == best_score(cands, entry_targets(entries[n]))
         IN  IF at_least_min_similarity(best)
             THEN Append(before, AsciiResult(entries[n].domain, best))
             ELSE before

detect_from_most_phished(domain, entries) ==
    LET kept == score_entries(entries, input_candidates(domain), Len(entries))
    IN  truncate(sort_by_similarity(kept), MAX_RESULTS)

\* db::fetch_candidates: the domain column of the rows that satisfy the WHERE
\* clause, in table order, at most limit of them.
fetch_candidates(table, first_char, min_len, max_len, limit) ==
    LET matches(row) == /\ row.first_char = first_char
                        /\ row.length >= min_len
                        /\ row.length <= max_len
        rows == SelectSeq(table, matches)
    IN  truncate([i \in 1..Len(rows) |-> rows[i].domain], limit)

RECURSIVE score_candidates(_, _, _)
score_candidates(normalized, fetched, n) ==
    IF n = 0
    THEN <<>>
    ELSE LET before     == score_candidates(normalized, fetched, n - 1)
             similarity == similarity_ratio(normalized, fetched[n])
         IN  IF at_least_min_similarity(similarity)
             THEN Append(before, AsciiResult(fetched[n], similarity))
             ELSE before

\* lines 60-74 of detect_impersonation: score, filter, sort, truncate
score_fetched(normalized, fetched) ==
    truncate(sort_by_similarity(score_candidates(normalized, fetched, Len(fetched))),
             MAX_RESULTS)

\* faulty variant, for comparison: the early return is never taken
brand_match_ignored(brand_results) == FALSE

\* if !most_phished_results.is_empty() { return Ok(most_phished_results); }
brand_match_is_final(brand_results) == brand_results # <<>>

\* ---- inputs of an ASCII detection call ----
MaxBrands == 4
MaxRows == 4

Str_aaaaa_c == <<97, 97, 97, 97, 97, 46, 99>>       \* "aaaaa.c"
Str_aaaab_c == <<97, 97, 97, 97, 98, 46, 99>>       \* "aaaab.c"
Str_bbbbb_c == <<98, 98, 98, 98, 98, 46, 99>>       \* "bbbbb.c"
Str_ddddd_c == <<100, 100, 100, 100, 100, 46, 99>>  \* "ddddd.c"
Str_Aaaaa   == <<65, 97, 97, 97, 97>>               \* "Aaaaa"
Str_aaaaa   == <<97, 97, 97, 97, 97>>               \* "aaaaa"
Str_aaaab   == <<97, 97, 97, 97, 98>>               \* "aaaab"
Str_aabbb   == <<97, 97, 98, 98, 98>>               \* "aabbb"
Str_baaaa   == <<98, 97, 97, 97, 97>>               \* "baaaa"

Str_aaaa    == <<97, 97, 97, 97>>                   \* "aaaa"

Str_a       == <<97>>                               \* "a"

AsciiInputs == {Str_aaaaa_c, Str_Aaaaa, Str_aaaa, Str_a, <<>>}

\* Entries of data/most-phished.json: a near miss of "aaaaa.c", an entry
\* that lists "aaaaa" as an alias, and an unrelated brand.
BrandPool ==
    { [domain |-> Str_aaaab_c, base |-> SubSeq(Str_aaaab_c, 1, 5), aliases |-> <<>>],
      [domain |-> Str_bbbbb_c, base |-> SubSeq(Str_bbbbb_c, 1, 5), aliases |-> <<Str_aaaaa>>],
      [domain |-> Str_ddddd_c, base |-> SubSeq(Str_ddddd_c, 1, 5), aliases |-> <<>>] }

BrandLists == UNION {[1..n -> BrandPool] : n \in 0..MaxBrands}

\* Rows of legit_domains, with the first_char and length columns the table
\* keeps next to each domain.
Row(domain) == [domain |-> domain, first_char |-> domain[1], length |-> str_len(domain)]

RowPool == {Row(Str_aaaaa), Row(Str_aaaab), Row(Str_aabbb), Row(Str_baaaa)}

Tables == UNION {[1..n -> RowPool] : n \in 0..MaxRows}

DbStatuses == {"ok", "open_fails", "query_fails"}

AsciiInit ==
    /\ pc = "ascii_start"
    /\ ret = NoRet
    /\ AuxIdle
    /\ SimIdle
    /\ ExpIdle
    /\ ScanIdle
    /\ ascii_domain \in AsciiInputs
    /\ most_phished \in BrandLists
    /\ most_phished_results = <<>>
    /\ db_status \in DbStatuses
    /\ db_opens = 0
    /\ db_queries = <<>>
    /\ candidates = <<>>

\* detect_impersonation up to the point where it needs the database: the
\* brand matcher's early return and the empty-input return.
BrandMatch ==
    /\ pc = "ascii_start"
    /\ scored' = score_entries(most_phished, input_candidates(ascii_domain),
                               Len(most_phished))
    /\ most_phished_results' = truncate(sort_by_similarity(scored'), MAX_RESULTS)
    /\ IF brand_match_is_final(most_phished_results')
       THEN pc' = "returned" /\ ret' = OkRet(most_phished_results')
       ELSE IF normalize(ascii_domain) = <<>>
            THEN pc' = "returned" /\ ret' = OkRet(<<>>)
            ELSE pc' = "open_db" /\ UNCHANGED ret
    /\ UNCHANGED <<opsVars, whoisVars, env, candidate_order, entry_index, simVars, expVars,
                   scanVars, ascii_domain, most_phished, db_status, db_opens,
                   db_queries, candidates>>

\* faulty variant, for comparison: a database failure gives an empty list
on_db_err_empty == OkRet(<<>>)

\* the ? after db::open(..) and db::fetch_candidates(..): the error is returned
on_db_err == ErrRet

\* let conn = db::open(db_path)?;
OpenDb ==
    /\ pc = "open_db"
    /\ db_opens' = db_opens + 1
    /\ IF db_status = "open_fails"
       THEN pc' = "returned" /\ ret' = on_db_err
       ELSE pc' = "fetch" /\ UNCHANGED ret
    /\ UNCHANGED <<opsVars, auxVars, simVars, expVars, scanVars, ascii_domain, most_phished,
                   most_phished_results, db_status, db_queries, candidates>>

\* faulty variant, for comparison: the subtraction is not clamped at zero
sub_unclamped(a, b) == a - b

\* usize::saturating_sub
saturating_sub(a, b) == IF a >= b THEN a - b ELSE 0

\* db::fetch_candidates(...)? and the scoring of what it returned
FetchAndScore ==
    /\ pc = "fetch"
    /\ LET normalized == normalize(ascii_domain)
           first_char == normalized[1]
           length     == str_len(normalized)
           min_len    == saturating_sub(length, LENGTH_BAND)
           max_len    == length + LENGTH_BAND
       IN  /\ db_queries' = Append(db_queries,
                                   [first_char |-> first_char, min_len |-> min_len,
                                    max_len |-> max_len, limit |-> MAX_CANDIDATES])
           /\ IF db_status = "query_fails"
              THEN /\ ret' = on_db_err
                   /\ UNCHANGED candidates
              ELSE \E table \in Tables :
                       /\ candidates' = fetch_candidates(table, first_char, min_len,
                                                         max_len, MAX_CANDIDATES)
                       /\ ret' = OkRet(score_fetched(normalized, candidates'))
    /\ pc' = "returned"
    /\ UNCHANGED <<opsVars, auxVars, simVars, expVars, scanVars, ascii_domain, most_phished,
                   most_phished_results, db_status, db_opens>>

AsciiNext == BrandMatch \/ OpenDb \/ FetchAndScore

SpecAscii == AsciiInit /\ [][AsciiNext]_vars

\* ---- claims about the ASCII path ----

DbTouched == db_opens > 0 \/ db_queries # <<>>

\* C3: the candidate store is opened and queried only if the brand matcher
\* returned an empty list; when the brand matcher returns at least one result
\* the call returns exactly that list, whatever the state of the database,
\* and the database is never opened or queried.
C3_BrandMatchHasPriority ==
    /\ DbTouched => pc # "ascii_start" /\ most_phished_results = <<>>
    /\ pc \in {"open_db", "fetch"} => most_phished_results = <<>>
    /\ (pc = "returned" /\ most_phished_results # <<>>) =>
           /\ ret = OkRet(most_phished_results)
           /\ ~DbTouched
           /\ candidates = <<>>

\* a brand match is returned although the database cannot be opened
C3_Witness ==
    /\ pc = "returned"
    /\ most_phished_results # <<>>
    /\ db_status = "open_fails"
    /\ ret = OkRet(most_phished_results)

SortedDescending(list) ==
    \A i \in 1..Len(list) : \A j \in 1..Len(list) :
        i < j => list[i].similarity >= list[j].similarity

WellFormedMatches(list) ==
    /\ Len(list) <= 3
    /\ SortedDescending(list)
    /\ \A i \in 1..Len(list) : list[i].similarity >= 80

\* C4: every list the ASCII path returns, from the brand matcher or from the
\* corpus matcher, has at most 3 entries, is sorted in non-increasing order
\* of similarity, and holds only entries of similarity at least 80.
C4_AtMostThreeSortedAboveThreshold ==
    /\ pc # "ascii_start" => WellFormedMatches(most_phished_results)
    /\ (pc = "returned" /\ ret.kind = "ok") => WellFormedMatches(ret.value)

\* the corpus matcher drops a row below 80, reorders and truncates
C4_Witness ==
    /\ pc = "returned"
    /\ ret.kind = "ok"
    /\ db_queries # <<>>
    /\ Len(candidates) = 4
    /\ Len(ret.value) = 3
    /\ ret.value[1].domain = candidates[4]
    /\ ret.value[1].similarity > ret.value[3].similarity
    /\ \E i \in 1..Len(candidates) :
           similarity_ratio(normalize(ascii_domain), candidates[i]) < 80

\* C15: when opening the candidate store or fetching the candidates fails, the
\* call returns that error, never an empty or partial list, and neither the
\* open nor the query is tried again.
C15_DbFailureIsFatal ==
    /\ db_opens <= 1
    /\ Len(db_queries) <= 1
    /\ (db_status = "open_fails" /\ db_opens = 1) =>
           (pc = "returned" /\ ret = ErrRet /\ db_queries = <<>>)
    /\ (db_status = "query_fails" /\ db_queries # <<>>) =>
           (pc = "returned" /\ ret = ErrRet /\ candidates = <<>>)

\* C15 witness: the store opens but the query fails
C15_Witness ==
    /\ pc = "returned"
    /\ db_status = "query_fails"
    /\ db_opens = 1
    /\ Len(db_queries) = 1
    /\ ret = ErrRet

\* the entries of list whose similarity is s, in the order of list
AtLevel(list, s) ==
    LET idx == {i \in 1..Len(list) : list[i].similarity = s}
    IN  [k \in 1..Cardinality(idx) |->
            list[CHOOSE i \in idx : Cardinality({j \in idx : j <= i}) = k]]

\* list by descending similarity, entries of equal similarity in the order
\* of list; levels is the set of similarities still to be placed
RECURSIVE ByLevels(_, _)
ByLevels(list, levels) ==
    IF levels = {}
    THEN <<>>
    ELSE LET top == CHOOSE s \in levels : \A other \in levels : other <= s
         IN  AtLevel(list, top) \o ByLevels(list, levels \ {top})

FirstThreeStable(list) ==
    LET ordered == ByLevels(list, {list[i].similarity : i \in 1..Len(list)})
    IN  SubSeq(ordered, 1, IF Len(ordered) < 3 THEN Len(ordered) ELSE 3)

\* the candidates the store returned that score at least 80, in return order
KeptCandidates ==
    LET input == normalize(ascii_domain)
        idx   == {i \in 1..Len(candidates) : similarity_ratio(input, candidates[i]) >= 80}
    IN  [k \in 1..Cardinality(idx) |->
            LET i == CHOOSE i \in idx : Cardinality({j \in idx : j <= i}) = k
            IN  [domain |-> candidates[i],
                 similarity |-> similarity_ratio(input, candidates[i])]]

\* C22: in both matchers, entries of equal similarity keep their input order
\* (curated-list order, store return order) through the sort, so that the 3
\* entries kept are the earliest of their similarity.
C22_TiesKeepInputOrder ==
    /\ pc # "ascii_start" => most_phished_results = FirstThreeStable(scored)
    /\ (pc = "returned" /\ ret.kind = "ok" /\ db_queries # <<>>) =>
           ret.value = FirstThreeStable(KeptCandidates)

\* C22 witness: four brand entries tie, two different ones among the first
\* three, and the last one is cut
C22_Witness ==
    /\ pc = "returned"
    /\ Len(scored) = 4
    /\ \A i \in 1..4 : scored[i].similarity = scored[1].similarity
    /\ scored[1].domain # scored[2].domain
    /\ scored[4].domain # scored[3].domain
    /\ ret = OkRet(SubSeq(scored, 1, 3))

\* the one query the corpus matcher is to issue for a non-empty lower-cased
\* input: its first character, its length (in bytes, as the code and the
\* length column count it) less 2 but not below 0, its length plus 2, 5000
ExpectedQuery(lowered) ==
    LET n == str_len(lowered)
    IN  [first_char |-> lowered[1],
         min_len    |-> IF n > 2 THEN n - 2 ELSE 0,
         max_len    |-> n + 2,
         limit      |-> 5000]

\* the corpus matcher ran to its end with the candidate store at hand
CorpusMatcherRan ==
    /\ pc = "returned"
    /\ most_phished_results = <<>>
    /\ db_status # "open_fails"

\* C25: the corpus matcher, on a non-empty lower-cased input of length n,
\* issues exactly one candidate query, with the input's first character,
\* minLen = max(0, n - 2), maxLen = n + 2 and limit 5000; on an empty
\* lower-cased input it issues no query and returns the empty list.
C25_OneBoundedQuery ==
    LET lowered == [i \in 1..Len(ascii_domain) |-> to_lowercase(ascii_domain[i])]
    IN  /\ Len(db_queries) <= 1
        /\ \A i \in 1..Len(db_queries) :
               lowered # <<>> /\ db_queries[i] = ExpectedQuery(lowered)
        /\ (CorpusMatcherRan /\ lowered # <<>>) => Len(db_queries) = 1
        /\ (pc = "returned" /\ lowered = <<>>) =>
               db_queries = <<>> /\ ret = OkRet(<<>>)

\* C25 witness: a one-character input, where n - 2 would fall below zero
C25_Witness ==
    /\ CorpusMatcherRan
    /\ ascii_domain = Str_a
    /\ db_queries = << [first_char |-> 97, min_len |-> 0, max_len |-> 3, limit |-> 5000] >>

\* ------------------------------------------------------------------------
\* The brand matcher entry by entry: ascii_spoof.rs detect_from_most_phished,
\* with the iteration order of its two HashSets left open
\* ------------------------------------------------------------------------
\* Longest MOST_PHISHED list scored entry by entry
MaxBrandEntries == 2

\* the orders in which a HashSet may hand out its elements
Orders(S) ==
    {f \in [1..Cardinality(S) -> S] :
        \A i, j \in 1..Cardinality(S) : i # j => f[i] # f[j]}

\* faulty variant, for comparison: best is overwritten by every score
raise_best_overwrite(best, score) == score

\* if score > best { best = score; }
raise_best(best, score) == IF score > best THEN score ELSE best

\* for candidate in candidates.iter() { for target in entry_targets.iter() {..} }
\* from the p-th pair on
RECURSIVE fold_best(_, _, _, _)
fold_best(best, cand_seq, target_seq, p) ==
    IF p > Len(cand_seq) * Len(target_seq)
    THEN best
    ELSE LET candidate == cand_seq[((p - 1) \div Len(target_seq)) + 1]
             target    == target_seq[((p - 1) % Len(target_seq)) + 1]
         IN  fold_best(raise_best(best, similarity_ratio(candidate, target)),
                       cand_seq, target_seq, p + 1)

BrandInit ==
    /\ pc = "brand_start"
    /\ ret = NoRet
    /\ OpsIdle /\ SimIdle /\ ExpIdle /\ ScanIdle /\ WhoisIdle
    /\ env = <<>>
    /\ ascii_domain \in AsciiInputs
    /\ most_phished \in UNION {[1..n -> BrandPool] : n \in 0..MaxBrandEntries}
    /\ most_phished_results = <<>>
    /\ db_status = "ok" /\ db_opens = 0 /\ db_queries = <<>> /\ candidates = <<>>
    /\ BrandIdle

\* ascii_spoof.rs:78-86: the candidates are put into a HashSet
BuildCandidates ==
    /\ pc = "brand_start"
    /\ candidate_order' \in Orders(input_candidates(ascii_domain))
    /\ entry_index' = 0
    /\ scored' = <<>>
    /\ pc' = "brand_loop"
    /\ UNCHANGED <<opsVars, ret, simVars, expVars, scanVars, asciiVars, whoisVars, env>>

\* ascii_spoof.rs:88-112: one pass of the loop over MOST_PHISHED
ScoreEntry ==
    /\ pc = "brand_loop"
    /\ entry_index < Len(most_phished)
    /\ LET entry == most_phished[entry_index + 1] IN
       \E target_order \in Orders(entry_targets(entry)) :
          LET best == fold_best(0, candidate_order, target_order, 1) IN
          scored' = IF at_least_min_similarity(best)
                    THEN Append(scored, AsciiResult(entry.domain, best))
                    ELSE scored
    /\ entry_index' = entry_index + 1
    /\ UNCHANGED <<opsVars, pc, ret, simVars, expVars, scanVars, asciiVars, whoisVars, env,
                   candidate_order>>

\* ascii_spoof.rs:114-116: sort, truncate, return
SortAndTruncate ==
    /\ pc = "brand_loop"
    /\ entry_index = Len(most_phished)
    /\ most_phished_results' = truncate(sort_by_similarity(scored), MAX_RESULTS)
    /\ pc' = "brand_done"
    /\ UNCHANGED <<opsVars, ret, simVars, expVars, scanVars, whoisVars, env, brandVars,
                   ascii_domain, most_phished, db_status, db_opens, db_queries,
                   candidates>>

BrandNext == BuildCandidates \/ ScoreEntry \/ SortAndTruncate

SpecBrand == BrandInit /\ [][BrandNext]_vars

\* ---- claims about the brand matcher ----

\* the largest similarity between a spelling of the input and a target of entry
MaxSimilarity(entry) ==
    LET scores == {similarity_ratio(c, t) :
                       c \in input_candidates(ascii_domain), t \in entry_targets(entry)}
    IN  CHOOSE s \in scores : \A other \in scores : other <= s

IsKept(entry) == MaxSimilarity(entry) >= 80

\* what the first n entries must have produced
ExpectedScored(n) ==
    LET kept == SelectSeq(SubSeq(most_phished, 1, n), IsKept)
    IN  [i \in 1..Len(kept) |->
            [domain |-> kept[i].domain, similarity |-> MaxSimilarity(kept[i])]]

\* C16: an entry is kept exactly when the largest similarity between the
\* spellings of the input and the entry's domain, base and aliases is at least
\* 80; a kept entry is emitted with entry.domain and that largest similarity,
\* whatever the order in which the two sets are iterated.
C16_BestScorePerEntry ==
    /\ pc = "brand_loop" => scored = ExpectedScored(entry_index)
    /\ pc = "brand_done" =>
           /\ scored = ExpectedScored(Len(most_phished))
           /\ most_phished_results = detect_from_most_phished(ascii_domain, most_phished)

\* C16 witness: an entry matched through its alias is emitted under its
\* domain, although the first pair compared scored below the threshold, and
\* another entry was dropped.
C16_Witness ==
    /\ pc = "brand_done"
    /\ Len(scored) < Len(most_phished)
    /\ \E i \in 1..Len(scored) :
          /\ scored[i].domain = Str_bbbbb_c
          /\ scored[i].similarity = 100
    /\ \A t \in {Str_bbbbb_c, SubSeq(Str_bbbbb_c, 1, 5), Str_aaaaa} :
          similarity_ratio(candidate_order[1], t) < 80

\* ------------------------------------------------------------------------
\* Registration checker: whois.rs check_domain_registration_with_url
\* ------------------------------------------------------------------------
\* the candidate domains "a", "a.c" and "@"
WhoisDomains == {<<97>>, <<97, 46, 99>>, <<64>>}
\* timeout_ms: a short one and DEFAULT_WHOIS_TIMEOUT_MS
WhoisTimeouts == {1, DEFAULT_WHOIS_TIMEOUT_MS}

\* What send() may return: Ok(response) with an HTTP status, or Err(err) where
\* err.is_timeout() tells a timeout from any other transport error.
SendOutcomes ==
    {[ok |-> TRUE, status |-> s, is_timeout |-> FALSE] : s \in {200, 204, 404, 500}}
    \cup {[ok |-> FALSE, status |-> 0, is_timeout |-> t] : t \in BOOLEAN}

\* What response.json::<DnsResponse>() may return: Ok(data), where data.answer
\* is None or Some(list of n answers), or Err(err): the body could not be read
\* before the timeout expired, or could not be read or parsed for another reason.
BodyOutcomes ==
    {[ok |-> TRUE, answer |-> a, is_timeout |-> FALSE] : a \in {None, Some(0), Some(1), Some(2)}}
    \cup {[ok |-> FALSE, answer |-> None, is_timeout |-> t] : t \in BOOLEAN}

\* StatusCode::is_success
is_success(status) == status >= 200 /\ status <= 299

\* data.answer.map(|a| !a.is_empty()).unwrap_or(false)
answer_registered(answer) == IF answer = None THEN FALSE ELSE answer[1] > 0

WhoisInit ==
    /\ pc = "whois_start"
    /\ ret = NoRet
    /\ OpsIdle /\ SimIdle /\ ExpIdle /\ ScanIdle /\ AsciiIdle /\ BrandIdle
    /\ env = <<>>
    /\ whois_request \in {[domain |-> d, timeout_ms |-> t] : d \in WhoisDomains, t \in WhoisTimeouts}
    /\ send_result = <<>>
    /\ body_result = <<>>

\* whois.rs:24-26: Client::builder().timeout(..).build()?
BuildClient ==
    /\ pc = "whois_start"
    /\ \E built \in BOOLEAN :
          IF built
          THEN pc' = "client_built" /\ UNCHANGED ret
          ELSE pc' = "returned" /\ ret' = ErrRet
    /\ UNCHANGED <<opsVars, simVars, expVars, scanVars, asciiVars, brandVars, env, whoisVars>>

\* whois.rs:28-38 and 43-46: the request is sent; a failed send and a status
\* other than 2xx end the call with a value
SendRequest ==
    /\ pc = "client_built"
    /\ \E resp \in SendOutcomes :
          /\ send_result' = resp
          /\ IF ~resp.ok
             THEN pc' = "returned" /\ ret' = OkRet(<<FALSE, resp.is_timeout>>)
             ELSE IF ~is_success(resp.status)
                  THEN pc' = "returned" /\ ret' = OkRet(<<FALSE, FALSE>>)
                  ELSE pc' = "read_body" /\ UNCHANGED ret
    /\ UNCHANGED <<opsVars, simVars, expVars, scanVars, asciiVars, brandVars, env, whois_request,
                   body_result>>

\* whois.rs:39-41: response.json()? and the test of its Answer list
ReadBody ==
    /\ pc = "read_body"
    /\ \E body \in BodyOutcomes :
          /\ body_result' = body
          /\ IF body.ok
             THEN ret' = OkRet(<<answer_registered(body.answer), FALSE>>)
             ELSE ret' = ErrRet
    /\ pc' = "returned"
    /\ UNCHANGED <<opsVars, simVars, expVars, scanVars, asciiVars, brandVars, env, whois_request,
                   send_result>>

WhoisNext == BuildClient \/ SendRequest \/ ReadBody

SpecWhois == WhoisInit /\ [][WhoisNext]_vars

\* ---- claims about the registration checker ----

SendFailed == send_result # <<>> /\ ~send_result.ok
BodyFailed == body_result # <<>> /\ ~body_result.ok

\* C12: every transport error that is not a timeout is returned as an error;
\* only a timeout is reported through the value (registered = false,
\* timedOut = true).
C12_NonTimeoutErrorsAreFatal ==
    pc = "returned" =>
        /\ (SendFailed /\ ~send_result.is_timeout) => ret = ErrRet
        /\ (BodyFailed /\ ~body_result.is_timeout) => ret = ErrRet
        /\ (SendFailed /\ send_result.is_timeout) => ret = OkRet(<<FALSE, TRUE>>)

\* C13: a timeout is never returned as an error: when the timeout expires while
\* the request is sent or while the body is read, the call returns the value
\* (registered, timedOut = true).
C13_TimeoutIsNeverAnError ==
    pc = "returned" =>
        /\ (SendFailed /\ send_result.is_timeout) =>
               (ret.kind = "ok" /\ ret.value[2] = TRUE)
        /\ (BodyFailed /\ body_result.is_timeout) =>
               (ret.kind = "ok" /\ ret.value[2] = TRUE)

\* ------------------------------------------------------------------------
\* The scan budgets read from the environment: idn.rs:47-51, env_usize, env_u64
\* ------------------------------------------------------------------------
BudgetKeys == {"PUNY_MAX_NORMALIZED", "WHOIS_MAX_CHECKS", "PUNY_MAX_RESULTS",
               "PUNY_MAX_RESULTS_TIMEOUT", "WHOIS_TIMEOUT_MS"}

\* a variable is unset, "x" or "1" ...
PlainValues == {None, Some(<<120>>), Some(<<49>>)}
\* ... or one variable holds "", "-1", "+2", "1.5", " 1", "007" or "12"
OddValues == {Some(<<>>), Some(<<45, 49>>), Some(<<43, 50>>), Some(<<49, 46, 53>>),
              Some(<<32, 49>>), Some(<<48, 48, 55>>), Some(<<49, 50>>)}

Environments ==
    [BudgetKeys -> PlainValues]
    \cup {[k \in BudgetKeys |-> IF k = key THEN v ELSE None] :
              key \in BudgetKeys, v \in OddValues}

EnvInit ==
    /\ pc = "read_budgets"
    /\ ret = NoRet
    /\ OpsIdle /\ SimIdle /\ ExpIdle /\ ScanIdle /\ AsciiIdle /\ BrandIdle /\ WhoisIdle
    /\ env \in Environments

\* idn.rs:47-51: the five budgets are read
ReadBudgets ==
    /\ pc = "read_budgets"
    /\ max_normalized' = env_usize(env["PUNY_MAX_NORMALIZED"], DEFAULT_MAX_NORMALIZED)
    /\ max_whois_checks' = env_usize(env["WHOIS_MAX_CHECKS"], DEFAULT_MAX_WHOIS_CHECKS)
    /\ max_results' = env_usize(env["PUNY_MAX_RESULTS"], DEFAULT_MAX_RESULTS)
    /\ max_results_timeout' =
           env_usize(env["PUNY_MAX_RESULTS_TIMEOUT"], DEFAULT_MAX_RESULTS_TIMEOUT)
    /\ whois_timeout' = env_usize(env["WHOIS_TIMEOUT_MS"], DEFAULT_WHOIS_TIMEOUT_MS)
    /\ pc' = "budgets_read"
    /\ UNCHANGED <<opsVars, ret, simVars, asciiVars, brandVars, whoisVars, env, confusables,
                   unicode_domain, normalized_domains, idn_domain, decoded, results,
                   timed_out, checks, checker_calls>>

EnvNext == ReadBudgets

SpecEnv == EnvInit /\ [][EnvNext]_vars

\* ---- claims about the budgets ----

IsDigit(c) == c >= 48 /\ c <= 57

\* the text is a non-negative integer in decimal, with or without a '+'
IsNonNegativeInteger(text) ==
    \/ text # <<>> /\ \A i \in 1..Len(text) : IsDigit(text[i])
    \/ Len(text) >= 2 /\ text[1] = 43 /\ \A i \in 2..Len(text) : IsDigit(text[i])

FallsBack(key) == env[key] = <<>> \/ ~IsNonNegativeInteger(env[key][1])

\* C20: each of the five budgets takes its default (2000 variants, 200 checks,
\* 50 results, 5 results after a timeout, 2500 ms) when its variable is unset
\* or is not a non-negative integer, and reading the budgets never fails.
C20_BudgetsFallBackToDefaults ==
    pc = "budgets_read" =>
        /\ ret = NoRet
        /\ FallsBack("PUNY_MAX_NORMALIZED") => max_normalized = 2000
        /\ FallsBack("WHOIS_MAX_CHECKS") => max_whois_checks = 200
        /\ FallsBack("PUNY_MAX_RESULTS") => max_results = 50
        /\ FallsBack("PUNY_MAX_RESULTS_TIMEOUT") => max_results_timeout = 5
        /\ FallsBack("WHOIS_TIMEOUT_MS") => whois_timeout = 2500

\* C20 witness: one variable does not parse, one is unset, one holds "1"
C20_Witness ==
    /\ pc = "budgets_read"
    /\ env["PUNY_MAX_NORMALIZED"] = Some(<<120>>)
    /\ env["WHOIS_TIMEOUT_MS"] = None
    /\ env["WHOIS_MAX_CHECKS"] = Some(<<49>>)
    /\ max_normalized = 2000
    /\ whois_timeout = 2500
    /\ max_whois_checks = 1

\* ------------------------------------------------------------------------
\* get_base_domain (ascii_spoof.rs:127-132) called on its own
\* ------------------------------------------------------------------------
\* Longest string whose base is taken
MaxBaseLen == 5

\* strings of "a" and "."
BaseInputs == StringsOver({97, 46}, MaxBaseLen)

BaseInit ==
    /\ pc = "base_start"
    /\ ret = NoRet
    /\ SimIdle /\ ExpIdle /\ ScanIdle /\ AuxIdle
    /\ ascii_domain \in BaseInputs
    /\ most_phished = <<>> /\ most_phished_results = <<>>
    /\ db_status = "ok" /\ db_opens = 0 /\ db_queries = <<>> /\ candidates = <<>>

\* a call of get_base_domain(ascii_domain)
GetBaseDomain ==
    /\ pc = "base_start"
    /\ ret' = OkRet(get_base_domain(ascii_domain))
    /\ pc' = "base_done"
    /\ UNCHANGED <<opsVars, simVars, expVars, scanVars, asciiVars, auxVars>>

BaseNext == GetBaseDomain

SpecBase == BaseInit /\ [][BaseNext]_vars

\* ---- claims about the base domain ----

HasDot(d) == \E i \in 1..Len(d) : d[i] = 46

\* k is the position of the last dot of d
IsLastDot(d, k) ==
    /\ k \in 1..Len(d)
    /\ d[k] = 46
    /\ \A j \in (k + 1)..Len(d) : d[j] # 46

\* C21: the base of d is d without its final dot-separated label and the dot
\* before it whenever d holds a dot, and d itself when d holds no dot.
C21_BaseDropsFinalLabel ==
    pc = "base_done" =>
        /\ HasDot(ascii_domain) =>
               \E k \in 1..Len(ascii_domain) :
                   /\ IsLastDot(ascii_domain, k)
                   /\ ret.value = SubSeq(ascii_domain, 1, k - 1)
        /\ ~HasDot(ascii_domain) => ret.value = ascii_domain

\* C21 as amended: the final label and its dot are dropped when the last dot
\* is not the first character; d is returned unchanged when it holds no dot
\* or its last dot is its first character.
C21_BaseDropsFinalLabelUnlessLeadingDot ==
    pc = "base_done" =>
        /\ \A k \in 2..Len(ascii_domain) :
               IsLastDot(ascii_domain, k) => ret.value = SubSeq(ascii_domain, 1, k - 1)
        /\ (~HasDot(ascii_domain) \/ IsLastDot(ascii_domain, 1)) =>
               ret.value = ascii_domain

\* C21 witness: "a.a.a" gives "a.a"
C21_Witness ==
    /\ pc = "base_done"
    /\ ascii_domain = <<97, 46, 97, 46, 97>>
    /\ ret.value = <<97, 46, 97>>

\* ------------------------------------------------------------------------
\* The domain argument (types.rs: normalize_domain_input)
\* ------------------------------------------------------------------------
FirstIn(positions) == CHOOSE i \in positions : \A j \in positions : i <= j
LastIn(positions) == CHOOSE i \in positions : \A j \in positions : j <= i

\* str::trim
trim(s) ==
    LET kept == {i \in 1..Len(s) : ~is_whitespace(s[i])}
    IN  IF kept = {} THEN <<>> ELSE SubSeq(s, FirstIn(kept), LastIn(kept))

\* the positions at which pattern starts in s
occurrences(s, pattern) ==
    {i \in 1..(Len(s) - Len(pattern) + 1) : SubSeq(s, i, i + Len(pattern) - 1) = pattern}

contains(s, pattern) == occurrences(s, pattern) # {}

SchemeSeparator == <<58, 47, 47>>                  \* "://"

\* s.split("://").nth(1): what lies between the first "://" and the next one
\* (s holds a "://" wherever this is evaluated)
after_scheme_separator(s) ==
    LET starts == occurrences(s, SchemeSeparator)
        first  == FirstIn(starts)
        later  == {i \in starts : i > first}
    IN  SubSeq(s, first + 3, IF later = {} THEN Len(s) ELSE FirstIn(later) - 1)

is_ascii_alphabetic(c) == (c >= 65 /\ c <= 90) \/ (c >= 97 /\ c <= 122)
is_ascii_digit(c) == c >= 48 /\ c <= 57

\* ---- Url::parse and Url::host_str (crate url, the WHATWG URL parser) ----
\* on the inputs of this model: ASCII text without userinfo, brackets,
\* percent signs, tabs or newlines, whose hosts are made of letters, dots and
\* hyphens and do not end in a number, and whose scheme is not "file".

UrlErr == [ok |-> FALSE]
UrlOk(host) == [ok |-> TRUE, host |-> host]

SpecialSchemes ==
    { <<104, 116, 116, 112>>, <<104, 116, 116, 112, 115>>,      \* http, https
      <<119, 115>>, <<119, 115, 115>>, <<102, 116, 112>> }      \* ws, wss, ftp

\* a scheme: a letter, then letters, digits, '+', '-' and '.'
is_scheme(s) ==
    /\ s # <<>>
    /\ is_ascii_alphabetic(s[1])
    /\ \A i \in 1..Len(s) : is_ascii_alphanumeric(s[i]) \/ s[i] \in {43, 45, 46}

\* the host and the port of an authority: the host ends at the first ':', the
\* port is a possibly empty decimal number of at most 65535
host_of_authority(authority, special) ==
    LET colons == {i \in 1..Len(authority) : authority[i] = 58}
        host   == IF colons = {} THEN authority
                  ELSE SubSeq(authority, 1, FirstIn(colons) - 1)
        port   == IF colons = {} THEN <<>>
                  ELSE SubSeq(authority, FirstIn(colons) + 1, Len(authority))
    IN  IF \E i \in 1..Len(port) : ~is_ascii_digit(port[i])
        THEN UrlErr
        ELSE IF digits_value(port) > 65535
        THEN UrlErr
        ELSE IF host = <<>> /\ (special \/ colons # {})
        THEN UrlErr
        ELSE UrlOk(Some(IF special THEN normalize(host) ELSE host))

url_parse(s) ==
    LET colons == {i \in 1..Len(s) : s[i] = 58}
    IN  IF colons = {} \/ ~is_scheme(SubSeq(s, 1, FirstIn(colons \cup {Len(s) + 1}) - 1))
        THEN UrlErr                                \* a relative URL without a base
        ELSE
        LET scheme    == SubSeq(s, 1, FirstIn(colons) - 1)
            rest      == SubSeq(s, FirstIn(colons) + 1, Len(s))
            special   == normalize(scheme) \in SpecialSchemes
            slashes   == IF special THEN {47, 92} ELSE {47}
            \* a special scheme skips every slash that follows the colon
            not_slash == {i \in 1..Len(rest) : rest[i] \notin slashes}
            start     == IF special
                         THEN FirstIn(not_slash \cup {Len(rest) + 1})
                         ELSE 3
            ends      == {i \in start..Len(rest) : rest[i] \in slashes \cup {63, 35}}
            stop      == FirstIn(ends \cup {Len(rest) + 1}) - 1
        IN  IF ~special /\ (Len(rest) < 2 \/ rest[1] # 47 \/ rest[2] # 47)
            THEN UrlOk(None)                       \* no authority: no host
            ELSE host_of_authority(SubSeq(rest, start, stop), special)

\* ---- normalize_domain_input (types.rs:72-105) ----

\* lines 78-86
host_part(trimmed) ==
    IF contains(trimmed, SchemeSeparator)
    THEN LET url == url_parse(trimmed)
         IN  IF url.ok
             THEN IF url.host = None THEN trimmed ELSE url.host[1]
             ELSE after_scheme_separator(trimmed)
    ELSE trimmed

\* lines 88-90
cut_path(host) ==
    LET marks == {i \in 1..Len(host) : host[i] \in {47, 63, 35}}
    IN  IF marks = {} THEN host ELSE SubSeq(host, 1, FirstIn(marks) - 1)

\* lines 92-97
cut_port(host) ==
    LET colons == {i \in 1..Len(host) : host[i] = 58}
    IN  IF colons = {}
        THEN host
        ELSE LET idx == LastIn(colons)
             IN  IF \A i \in (idx + 1)..Len(host) : is_ascii_digit(host[i])
                 THEN SubSeq(host, 1, idx - 1)
                 ELSE host

\* host.split('.').filter(|p| !p.is_empty())
RECURSIVE non_empty_labels(_)
non_empty_labels(host) ==
    LET dots == {i \in 1..Len(host) : host[i] = 46}
    IN  IF host = <<>> THEN <<>>
        ELSE IF dots = {} THEN <<host>>
        ELSE LET head == SubSeq(host, 1, FirstIn(dots) - 1)
                 rest == non_empty_labels(SubSeq(host, FirstIn(dots) + 1, Len(host)))
             IN  IF head = <<>> THEN rest ELSE <<head>> \o rest

\* lines 99-104
last_two_labels(host) ==
    LET parts == non_empty_labels(host)
    IN  IF Len(parts) >= 2
        THEN parts[Len(parts) - 1] \o <<46>> \o parts[Len(parts)]
        ELSE host

normalize_domain_input(input) ==
    LET trimmed == trim(input)
    IN  IF trimmed = <<>>
        THEN <<>>
        ELSE last_two_labels(cut_port(cut_path(host_part(trimmed))))

\* ---- inputs: [scheme "://"] host [":" port] [path, query or fragment] ----
InputSchemes == { <<>>, <<119, 115, 58, 47, 47>>, <<97, 58, 47, 47>> }     \* "", "ws://", "a://"
InputHosts ==
    { <<98, 46, 97>>, <<97, 46, 98, 46, 97>>, <<97, 46, 97, 46, 98>> }     \* "b.a", "a.b.a", "a.a.b"
InputPorts == { <<>>, <<58, 56>>, <<58, 57, 57, 57, 57, 57>> }             \* "", ":8", ":99999"
InputTails ==
    { <<>>, <<47, 97>>, <<63, 97>>, <<35, 97>>,                            \* "", "/a", "?a", "#a"
      <<47, 97, 58, 56>>,                                                  \* "/a:8"
      <<47, 97, 58, 47, 47, 98, 46, 98>> }                                 \* "/a://b.b"
BlankInputs == { <<>>, <<32>>, <<32, 9, 10>> }

RawInput(scheme, host, port, tail) ==
    [scheme |-> scheme, host |-> host, port |-> port, tail |-> tail]

RawInputs ==
    {RawInput(s, h, p, t) : s \in InputSchemes, h \in InputHosts, p \in InputPorts,
                            t \in InputTails}
        \cup {RawInput(<<>>, b, <<>>, <<>>) : b \in BlankInputs}

\* the argument as typed
typed(input) == input.scheme \o input.host \o input.port \o input.tail

InputInit ==
    /\ pc = "input_start"
    /\ ret = NoRet
    /\ SimIdle /\ ExpIdle /\ ScanIdle /\ AsciiIdle
    /\ BrandIdle /\ WhoisIdle /\ env = <<>>
    /\ DownloadIdle
    /\ raw_input \in RawInputs
    /\ command = "" /\ no_db = FALSE /\ db_ensures = 0

NormalizeInput ==
    /\ pc = "input_start"
    /\ ret' = OkRet(normalize_domain_input(typed(raw_input)))
    /\ pc' = "input_done"
    /\ UNCHANGED <<simVars, expVars, scanVars, asciiVars, auxVars, opsVars>>

InputNext == NormalizeInput

SpecInput == InputInit /\ [][InputNext]_vars

\* ---- claims about the domain argument ----

IsBlank(input) == \A i \in 1..Len(input) : is_whitespace(input[i])

\* the last two of the dot-separated labels of a host of two or more
\* non-empty labels
LastTwoLabels(host) ==
    LET dots == {i \in 1..Len(host) : host[i] = 46}
        last == LastIn(dots)
        earlier == {i \in dots : i < last}
    IN  SubSeq(host, IF earlier = {} THEN 1 ELSE LastIn(earlier) + 1, Len(host))

\* C24: an input made of an optional scheme, a host of at least two non-empty
\* labels, an optional port and an optional path, query or fragment is mapped
\* to the last two labels of the host joined by a dot; a blank input is mapped
\* to the empty string.
C24_LastTwoLabelsOfHost ==
    pc = "input_done" =>
        ret.value = IF IsBlank(typed(raw_input))
                    THEN <<>>
                    ELSE LastTwoLabels(raw_input.host)

\* ------------------------------------------------------------------------
\* Commands and routes (main.rs: run; http.rs: serve, lookup, ascii,
\* idn_lookup), with the --no-db flag
\* ------------------------------------------------------------------------
MaxDbOpens == 1

CliCommands == {"lookup", "ascii", "idn", "serve"}
HttpRoutes == {"POST /lookup", "POST /ascii", "POST /idn"}

Str_xn_a_a == <<120, 110, 45, 45, 97, 46, 97>>     \* "xn--a.a"
Str_cyr_a  == <<1072, 46, 97>>                     \* Cyrillic "a", ".a"

\* "aaaaa.c", "ws://aaaaa.c:8/a", a Unicode name, a Punycode name, ""
CliInputs ==
    { RawInput(<<>>, Str_aaaaa_c, <<>>, <<>>),
      RawInput(<<119, 115, 58, 47, 47>>, Str_aaaaa_c, <<58, 56>>, <<47, 97>>),
      RawInput(<<>>, Str_cyr_a, <<>>, <<>>),
      RawInput(<<>>, Str_xn_a_a, <<>>, <<>>),
      RawInput(<<>>, <<>>, <<>>, <<>>) }

\* MOST_PHISHED: one brand close to "aaaaa.c", or one far from it
CuratedLists ==
    { << [domain |-> Str_aaaab_c, base |-> SubSeq(Str_aaaab_c, 1, 5), aliases |-> <<>>] >>,
      << [domain |-> Str_ddddd_c, base |-> SubSeq(Str_ddddd_c, 1, 5), aliases |-> <<>>] >> }

\* what lookup_idn may return (the scan itself is the specification Spec)
IdnOutcomes ==
    { ErrRet, OkRet(<<>>),
      OkRet(<< [domain |-> <<97, 46, 97>>, is_registered |-> TRUE] >>) }

\* domain.starts_with("xn--") || domain.chars().any(|c| c as u32 > 127)
is_idn(domain) ==
    \/ Len(domain) >= 4 /\ SubSeq(domain, 1, 4) = <<120, 110, 45, 45>>
    \/ \E i \in 1..Len(domain) : domain[i] > 127

\* empty_ascii_response(domain).results (types.rs:63-70)
empty_ascii_response == <<>>

\* faulty variant, for comparison: the flag is handed to the server as it is
use_db_as_given(flag) == flag

\* main.rs:221: http::serve(host, port, db, !no_db)
use_db_of(flag) == ~flag

CliInit ==
    /\ pc = "cli_start"
    /\ ret = NoRet
    /\ SimIdle /\ ExpIdle /\ ScanIdle
    /\ BrandIdle /\ WhoisIdle /\ env = <<>>
    /\ DownloadIdle
    /\ raw_input \in CliInputs
    /\ command \in CliCommands
    /\ no_db \in BOOLEAN
    /\ db_ensures = 0
    /\ ascii_domain = <<>>
    /\ most_phished \in CuratedLists
    /\ most_phished_results = <<>>
    /\ db_status \in DbStatuses
    /\ db_opens = 0
    /\ db_queries = <<>>
    /\ candidates = <<>>

\* idn::lookup_idn(&domain): the call, and what it returned
LookupIdn(domain) ==
    /\ idn_domain' = domain
    /\ ret' \in IdnOutcomes
    /\ pc' = "returned"
    /\ UNCHANGED <<ascii_domain, db_ensures>>

\* the response without the database
RespondEmpty ==
    /\ ret' = OkRet(empty_ascii_response)
    /\ pc' = "returned"
    /\ UNCHANGED <<ascii_domain, idn_domain, db_ensures>>

\* ascii_spoof::lookup_ascii(&domain, &db): the call; BrandMatch, OpenDb and
\* FetchAndScore are its steps
LookupAscii(domain) ==
    /\ ascii_domain' = domain
    /\ pc' = "ascii_start"
    /\ UNCHANGED <<ret, idn_domain>>

\* db::ensure_db(&db, DEFAULT_DB_URL)?; ascii_spoof::lookup_ascii(&domain, &db)?
EnsureDbThenLookupAscii(domain) ==
    /\ db_ensures' = db_ensures + 1
    /\ \E ensured \in BOOLEAN :
           IF ensured
           THEN LookupAscii(domain)
           ELSE /\ ret' = ErrRet
                /\ pc' = "returned"
                /\ UNCHANGED <<ascii_domain, idn_domain>>

CliFrame ==
    UNCHANGED <<simVars, expVars, budgetVars, decoded, results, timed_out, checks,
                checker_calls, most_phished, most_phished_results, db_status, db_opens,
                db_queries, candidates, auxVars, downloadVars, raw_input, command, no_db>>

\* Commands::Lookup (main.rs:145-175)
RunLookup ==
    /\ pc = "cli_start" /\ command = "lookup"
    /\ LET domain == normalize_domain_input(typed(raw_input))
       IN  IF is_idn(domain)
           THEN LookupIdn(domain)
           ELSE IF no_db
           THEN RespondEmpty
           ELSE EnsureDbThenLookupAscii(domain)
    /\ CliFrame

\* Commands::Ascii (main.rs:176-196)
RunAscii ==
    /\ pc = "cli_start" /\ command = "ascii"
    /\ LET domain == normalize_domain_input(typed(raw_input))
       IN  IF no_db
           THEN RespondEmpty
           ELSE EnsureDbThenLookupAscii(domain)
    /\ CliFrame

\* Commands::Idn (main.rs:197-209)
RunIdn ==
    /\ pc = "cli_start" /\ command = "idn"
    /\ LookupIdn(normalize_domain_input(typed(raw_input)))
    /\ CliFrame

\* Commands::Serve (main.rs:210-222): the database is ensured unless --no-db,
\* then the server listens
RunServe ==
    /\ pc = "cli_start" /\ command = "serve"
    /\ IF ~no_db
       THEN /\ db_ensures' = db_ensures + 1
            /\ \E ensured \in BOOLEAN :
                   IF ensured
                   THEN pc' = "serving" /\ UNCHANGED ret
                   ELSE pc' = "returned" /\ ret' = ErrRet
       ELSE pc' = "serving" /\ UNCHANGED <<ret, db_ensures>>
    /\ UNCHANGED <<ascii_domain, idn_domain>>
    /\ CliFrame

HttpFrame ==
    UNCHANGED <<simVars, expVars, budgetVars, decoded, results, timed_out, checks,
                checker_calls, most_phished, most_phished_results, db_status, db_opens,
                db_queries, candidates, auxVars, downloadVars, raw_input, no_db>>

\* POST /lookup (http.rs:106-144); raw_input is payload.domain
HttpLookup ==
    /\ pc = "serving"
    /\ command' = "POST /lookup"
    /\ LET domain == normalize_domain_input(typed(raw_input))
       IN  IF is_idn(domain)
           THEN LookupIdn(domain)
           ELSE IF ~use_db_of(no_db)
           THEN RespondEmpty
           ELSE LookupAscii(domain) /\ UNCHANGED db_ensures
    /\ HttpFrame

\* POST /ascii (http.rs:153-178)
HttpAscii ==
    /\ pc = "serving"
    /\ command' = "POST /ascii"
    /\ LET domain == normalize_domain_input(typed(raw_input))
       IN  IF ~use_db_of(no_db)
           THEN RespondEmpty
           ELSE LookupAscii(domain) /\ UNCHANGED db_ensures
    /\ HttpFrame

\* POST /idn (http.rs:187-205)
HttpIdn ==
    /\ pc = "serving"
    /\ command' = "POST /idn"
    /\ LookupIdn(normalize_domain_input(typed(raw_input)))
    /\ HttpFrame

\* the server has answered and takes the next request
NextRequest ==
    /\ pc = "returned"
    /\ command \in HttpRoutes
    /\ db_opens < MaxDbOpens
    /\ pc' = "serving"
    /\ ret' = NoRet
    /\ raw_input' \in CliInputs
    /\ ascii_domain' = <<>>
    /\ idn_domain' = <<>>
    /\ most_phished_results' = <<>>
    /\ candidates' = <<>>
    /\ scored' = <<>>
    /\ UNCHANGED <<simVars, expVars, budgetVars, decoded, results, timed_out, checks,
                   checker_calls, most_phished, db_status, db_opens, db_queries,
                   candidate_order, entry_index, whoisVars, env, downloadVars,
                   command, no_db, db_ensures>>

CliNext ==
    \/ RunLookup \/ RunAscii \/ RunIdn \/ RunServe
    \/ HttpLookup \/ HttpAscii \/ HttpIdn \/ NextRequest
    \/ BrandMatch \/ OpenDb \/ FetchAndScore

SpecCli == CliInit /\ [][CliNext]_vars

\* ---- claims about --no-db ----

AsciiPaths == {"ascii", "POST /ascii"}
LookupPaths == {"lookup", "POST /lookup"}
IdnPaths == {"idn", "POST /idn"}

\* the domain the request names
RequestedDomain == normalize_domain_input(typed(raw_input))

\* it is an IDN: it starts with "xn--" or holds a non-ASCII character
IsIdnName(domain) ==
    \/ \E i \in 1..Len(domain) : domain[i] >= 128
    \/ /\ Len(domain) >= 4
       /\ domain[1] = 120 /\ domain[2] = 110 /\ domain[3] = 45 /\ domain[4] = 45

AnsweredAscii ==
    /\ pc = "returned"
    /\ \/ command \in AsciiPaths
       \/ command \in LookupPaths /\ ~IsIdnName(RequestedDomain)

AnsweredIdn ==
    /\ pc = "returned"
    /\ \/ command \in IdnPaths
       \/ command \in LookupPaths /\ IsIdnName(RequestedDomain)

\* C23: with --no-db every ASCII lookup (the lookup and ascii commands, POST
\* /lookup on a non-IDN domain, POST /ascii) answers successfully with an empty
\* list, and the database is never ensured (downloaded), opened or queried;
\* an IDN lookup goes to lookup_idn alone whatever the flag.
C23_NoDbAnswersEmptyAndLeavesDbAlone ==
    /\ no_db => db_ensures = 0 /\ db_opens = 0 /\ db_queries = <<>>
    /\ (no_db /\ AnsweredAscii) => ret = OkRet(<<>>) /\ ascii_domain = <<>>
    /\ AnsweredIdn =>
           /\ idn_domain = RequestedDomain
           /\ ret \in IdnOutcomes
           /\ ascii_domain = <<>> /\ most_phished_results = <<>> /\ candidates = <<>>

\* C23 witness: POST /lookup of "ws://aaaaa.c:8/a" on a server started with
\* --no-db, the curated list holding a brand one edit away
C23_Witness ==
    /\ no_db
    /\ AnsweredAscii
    /\ command = "POST /lookup"
    /\ raw_input.scheme # <<>>
    /\ RequestedDomain = Str_aaaaa_c
    /\ most_phished[1].domain = Str_aaaab_c
    /\ ret = OkRet(<<>>)

\* ------------------------------------------------------------------------
\* The database download (db.rs: download_db, read_expected_db_sha256,
\* verify_db_sha256)
\* ------------------------------------------------------------------------
\* A response body: digest is its SHA-256 in lower-case hexadecimal, contents
\* what its zstd stream decompresses to, and sound whether the stream
\* decompresses to its end.
Body(digest, contents, sound) == [digest |-> digest, contents |-> contents, sound |-> sound]

Bodies ==
    { Body(<<97, 98>>, "new", TRUE),               \* digest "ab"
      Body(<<99, 100>>, "new", FALSE),             \* digest "cd", a broken stream
      Body(<<101, 101>>, "other", TRUE) }          \* digest "ee"

Statuses == {200, 404}

\* the checksum file: absent (and no embedded checksum), or its contents:
\* "ab", "AB\n", "cd", "ff"
ShaFiles == { None, Some(<<97, 98>>), Some(<<65, 66, 10>>), Some(<<99, 100>>),
              Some(<<102, 102>>) }

\* read_expected_db_sha256 (db.rs:102-136): contents.trim().to_lowercase(), or
\* an error when no checksum is found
read_expected_db_sha256(file) ==
    IF file = None THEN None ELSE Some(normalize(trim(file[1])))

\* faulty variant, for comparison: any checksum is accepted
checksum_ignored(actual, expected) == TRUE

\* db.rs:143: actual != expected is the mismatch
checksum_matches(actual, expected) == actual = expected

\* format!("{:x}", hasher.finalize())
sha256_hex(body) == body.digest

DownloadInit ==
    /\ pc = "download_start"
    /\ ret = NoRet
    /\ SimIdle /\ ExpIdle /\ ScanIdle /\ AsciiIdle
    /\ BrandIdle /\ WhoisIdle /\ env = <<>>
    /\ CliIdle
    /\ db_file \in {None, Some("old")}
    /\ db_file_before = db_file
    /\ tmp_file \in {None, Some("stale")}
    /\ response = None
    /\ sha_file \in ShaFiles
    /\ decompressed = FALSE

\* a ? that returns the error
DownloadFails == pc' = "download_done" /\ ret' = ErrRet

DownloadFrame == UNCHANGED <<simVars, expVars, scanVars, asciiVars, auxVars, cliVars>>

\* fs::create_dir_all(parent)?
CreateDir ==
    /\ pc = "download_start"
    /\ \E created \in BOOLEAN :
           IF created THEN pc' = "get" /\ UNCHANGED ret ELSE DownloadFails
    /\ UNCHANGED downloadVars
    /\ DownloadFrame

\* reqwest::blocking::get(url)? and the test of the status
GetResponse ==
    /\ pc = "get"
    /\ \/ /\ DownloadFails
          /\ UNCHANGED response
       \/ \E status \in Statuses, body \in Bodies :
              /\ response' = Some([status |-> status, body |-> body])
              /\ IF is_success(status)
                 THEN pc' = "bytes" /\ UNCHANGED ret
                 ELSE DownloadFails
    /\ UNCHANGED <<db_file, db_file_before, tmp_file, sha_file, decompressed>>
    /\ DownloadFrame

\* response.bytes()?
ReadBytes ==
    /\ pc = "bytes"
    /\ \E read \in BOOLEAN :
           IF read THEN pc' = "verify" /\ UNCHANGED ret ELSE DownloadFails
    /\ UNCHANGED downloadVars
    /\ DownloadFrame

\* verify_db_sha256(&compressed)?
VerifySha ==
    /\ pc = "verify"
    /\ LET expected == read_expected_db_sha256(sha_file)
       IN  IF expected = None
           THEN DownloadFails
           ELSE IF checksum_matches(sha256_hex(response[1].body), expected[1])
           THEN pc' = "decoder" /\ UNCHANGED ret
           ELSE DownloadFails
    /\ UNCHANGED downloadVars
    /\ DownloadFrame

\* Decoder::new(..)? and File::create(&tmp_path)?: the temporary file is
\* created, or emptied if it was there
CreateTmp ==
    /\ pc = "decoder"
    /\ \E decoder \in BOOLEAN, created \in BOOLEAN :
           IF ~decoder
           THEN DownloadFails /\ UNCHANGED tmp_file
           ELSE IF ~created
           THEN DownloadFails /\ UNCHANGED tmp_file
           ELSE pc' = "copy" /\ tmp_file' = Some("") /\ UNCHANGED ret
    /\ UNCHANGED <<db_file, db_file_before, response, sha_file, decompressed>>
    /\ DownloadFrame

\* std::io::copy(&mut decoder, &mut out)?: a broken stream or a failed write
\* leaves a part of the contents in the temporary file
Copy ==
    /\ pc = "copy"
    /\ \E written \in BOOLEAN :
           IF response[1].body.sound /\ written
           THEN /\ tmp_file' = Some(response[1].body.contents)
                /\ decompressed' = TRUE
                /\ pc' = "flush" /\ UNCHANGED ret
           ELSE /\ tmp_file' = Some("part")
                /\ UNCHANGED decompressed
                /\ DownloadFails
    /\ UNCHANGED <<db_file, db_file_before, response, sha_file>>
    /\ DownloadFrame

\* out.flush()?
Flush ==
    /\ pc = "flush"
    /\ \E flushed \in BOOLEAN :
           IF flushed THEN pc' = "rename" /\ UNCHANGED ret ELSE DownloadFails
    /\ UNCHANGED downloadVars
    /\ DownloadFrame

\* fs::rename(tmp_path, db_path)?; Ok(())
Rename ==
    /\ pc = "rename"
    /\ \E renamed \in BOOLEAN :
           IF renamed
           THEN /\ db_file' = tmp_file
                /\ tmp_file' = None
                /\ pc' = "download_done"
                /\ ret' = OkRet(<<>>)
           ELSE /\ DownloadFails
                /\ UNCHANGED <<db_file, tmp_file>>
    /\ UNCHANGED <<db_file_before, response, sha_file, decompressed>>
    /\ DownloadFrame

DownloadNext ==
    \/ CreateDir \/ GetResponse \/ ReadBytes \/ VerifySha
    \/ CreateTmp \/ Copy \/ Flush \/ Rename

SpecDownload == DownloadInit /\ [][DownloadNext]_vars

\* ---- claims about the download ----

\* the response was successful and its body has the expected checksum
ResponseVerified ==
    /\ response # <<>>
    /\ response[1].status \in 200..299
    /\ sha_file # <<>>
    /\ response[1].body.digest = normalize(trim(sha_file[1]))

\* C26: download_db replaces the file at db_path only after a successful
\* response whose body has the expected SHA-256 was decompressed to the end
\* into the temporary file; when it returns an error the file at db_path is
\* as it was.
C26_ReplacedOnlyAfterVerifiedDownload ==
    /\ db_file # db_file_before =>
           /\ ResponseVerified
           /\ decompressed
           /\ db_file = Some(response[1].body.contents)
    /\ (pc = "download_done" /\ ret = ErrRet) => db_file = db_file_before
    /\ (pc = "download_done" /\ ret # ErrRet) =>
           ResponseVerified /\ decompressed /\ db_file = Some(response[1].body.contents)

\* C26 witness: an old database replaced, the checksum file holding the
\* digest in upper case with a newline
C26_Witness ==
    /\ pc = "download_done"
    /\ ret = OkRet(<<>>)
    /\ db_file_before = Some("old")
    /\ db_file = Some("new")
    /\ sha_file = Some(<<65, 66, 10>>)

====
